---------------------------- MODULE Spec2Model ----------------------------
(***************************************************************************)
(* Remote Fetch plugin: the download pipeline RemoteFetchPlugin.downloadFile *)
(* in its two snapshots, src/main.ts (requestUrl, direct) and               *)
(* src/unnamed/part_000 (fetch, optional CORS relay, one-shot 304 retry).   *)
(*                                                                         *)
(* JavaScript strings are sequences of one-character strings, so that       *)
(* lastIndexOf, substring, includes, split and toLowerCase are computed as  *)
(* the code computes them.  A byte buffer is the pair (which response it    *)
(* is the body of, its length): the code only measures a buffer and hands   *)
(* it on.  One action is one stretch of code between two awaits.            *)
(***************************************************************************)
EXTENDS Integers, Sequences, FiniteSets, TLC

VARIABLES
    variant,    \* which snapshot of downloadFile runs: "main" or "part_000"
    settings,   \* RemoteFetchSettings: enableCorsProxy, corsProxyUrl
    vault,      \* the vault: its folders and its files (path -> buffer)
    run,        \* per invocation of downloadFile: its locals and its history
    modal,      \* the RemoteFetchModal: its form, its loading state, its notices
    leaf,       \* one call of a helper of the plugin: its arguments and result
    worker      \* one request handled by the relay worker (cors-proxy-worker.js)

vars == <<variant, settings, vault, run, modal, leaf, worker>>

----------------------------------------------------------------------------
(* Bounds of the model *)

\* how many bytes above MAX_FILE_SIZE the largest body / declared length is
MaxOver == 1

\* the longest file name handed to validateFilename on its own
MaxNameLen == 5

\* the longest file name handed to sanitizeFilename on its own
MaxSanitizeLen == 3

----------------------------------------------------------------------------
(* JavaScript string primitives *)

None == <<"<null>">>      \* null / undefined / absent header

Upper == <<"A","B","C","D","E","F","G","H","I","J","K","L","M",
           "N","O","P","Q","R","S","T","U","V","W","X","Y","Z">>
Lower == <<"a","b","c","d","e","f","g","h","i","j","k","l","m",
           "n","o","p","q","r","s","t","u","v","w","x","y","z">>
Digits == <<"0","1","2","3","4","5","6","7","8","9">>

\* two code units outside ASCII: U+0130, capital I with dot above, whose lower
\* case is the two code units "i" U+0307 (combining dot above)
CapitalIDot == "U+0130"
CombiningDot == "U+0307"

\* the lower case of one code unit: one code unit, or two for U+0130
LowerChar(c) ==
    IF \E i \in 1..26 : Upper[i] = c
    THEN << Lower[CHOOSE i \in 1..26 : Upper[i] = c] >>
    ELSE IF c = CapitalIDot THEN << "i", CombiningDot >>
    ELSE << c >>

\* String.prototype.toLowerCase
RECURSIVE toLowerCase(_)
toLowerCase(s) ==
    IF Len(s) = 0 THEN << >> ELSE LowerChar(s[1]) \o toLowerCase(Tail(s))

\* String.prototype.lastIndexOf for a one-character needle: 0-based, -1 if absent
lastIndexOf(s, c) ==
    IF \E i \in 1..Len(s) : s[i] = c
    THEN (CHOOSE i \in 1..Len(s) : s[i] = c /\ \A j \in (i+1)..Len(s) : s[j] # c) - 1
    ELSE -1

\* String.prototype.indexOf for a one-character needle: 0-based, -1 if absent
indexOf(s, c) ==
    IF \E i \in 1..Len(s) : s[i] = c
    THEN (CHOOSE i \in 1..Len(s) : s[i] = c /\ \A j \in 1..(i-1) : s[j] # c) - 1
    ELSE -1

Clamp(n, len) == IF n < 0 THEN 0 ELSE IF n > len THEN len ELSE n

\* String.prototype.substring(start, end): 0-based, arguments clamped to
\* [0, length] and swapped when start > end
substring(s, start, end) ==
    LET a == Clamp(start, Len(s))
        b == Clamp(end, Len(s))
        lo == IF a < b THEN a ELSE b
        hi == IF a < b THEN b ELSE a
    IN  [i \in 1..(hi - lo) |-> s[lo + i]]

\* String.prototype.substring(start)
substringFrom(s, start) == substring(s, start, Len(s))

\* String.prototype.includes
includes(s, sub) ==
    \E i \in 0..(Len(s) - Len(sub)) : \A j \in 1..Len(sub) : s[i + j] = sub[j]

\* targetPath.split("/").pop() || ""  : the text after the last "/"
lastSegment(s) == substringFrom(s, lastIndexOf(s, "/") + 1)

\* the empty string ""
EmptyString == << >>

\* the string without its leading and trailing spaces
RECURSIVE StripLeading(_)
StripLeading(s) ==
    IF Len(s) > 0 /\ s[1] = " " THEN StripLeading(Tail(s)) ELSE s

RECURSIVE StripTrailing(_)
StripTrailing(s) ==
    IF Len(s) > 0 /\ s[Len(s)] = " " THEN StripTrailing(SubSeq(s, 1, Len(s) - 1))
    ELSE s

\* String.prototype.trim
trim(s) == StripTrailing(StripLeading(s))

\* JavaScript truthiness of a string-or-null value
Truthy(s) == s # None /\ Len(s) > 0

\* the decimal digits of a natural number
RECURSIVE ToDigits(_)
ToDigits(n) ==
    IF n < 10 THEN <<Digits[n + 1]>>
    ELSE ToDigits(n \div 10) \o <<Digits[(n % 10) + 1]>>

IsDigit(c) == \E i \in 1..10 : Digits[i] = c
DigitVal(c) == (CHOOSE i \in 1..10 : Digits[i] = c) - 1

NaN == -1       \* parseInt's NaN; every comparison with it is false

\* parseInt(s): the longest prefix of decimal digits, NaN when there is none
RECURSIVE ParseDigits(_, _, _)
ParseDigits(s, i, acc) ==
    IF i > Len(s) \/ ~IsDigit(s[i]) THEN acc
    ELSE ParseDigits(s, i + 1, acc * 10 + DigitVal(s[i]))

parseInt(s) ==
    IF Len(s) = 0 \/ ~IsDigit(s[1]) THEN NaN ELSE ParseDigits(s, 1, 0)

\* a > b on JavaScript numbers, false when either is NaN
GreaterThan(a, b) == a # NaN /\ b # NaN /\ a > b

----------------------------------------------------------------------------
(* Safety constants *)

MiB == 1024 * 1024
MAX_FILE_SIZE == 20 * 1024 * 1024

ALLOWED_PROTOCOLS == { <<"h","t","t","p","s",":">>, <<"h","t","t","p",":">> }

BLOCKED_EXTENSIONS == {
    <<".","e","x","e">>, <<".","b","a","t">>, <<".","c","m","d">>,
    <<".","s","c","r">>, <<".","c","o","m">>, <<".","p","i","f">>,
    <<".","v","b","s">>, <<".","j","s">>,     <<".","j","a","r">>,
    <<".","a","p","p">>, <<".","d","e","b">>, <<".","d","m","g">>,
    <<".","p","k","g">>, <<".","m","s","i">> }

App == <<"a","p","p","l","i","c","a","t","i","o","n","/">>
Ooxml == App \o <<"v","n","d",".","o","p","e","n","x","m","l","f","o","r","m",
                  "a","t","s","-","o","f","f","i","c","e","d","o","c","u","m",
                  "e","n","t">>

ALLOWED_CONTENT_TYPES == {
    App \o <<"p","d","f">>,
    <<"i","m","a","g","e","/">>,
    <<"t","e","x","t","/">>,
    App \o <<"j","s","o","n">>,
    App \o <<"z","i","p">>,
    App \o <<"x","-","z","i","p","-","c","o","m","p","r","e","s","s","e","d">>,
    App \o <<"m","s","w","o","r","d">>,
    Ooxml,
    App \o <<"v","n","d",".","m","s","-","e","x","c","e","l">>,
    <<"v","i","d","e","o","/">>,
    <<"a","u","d","i","o","/">>,
    App \o <<"o","c","t","e","t","-","s","t","r","e","a","m">> }

TextHtml == <<"t","e","x","t","/","h","t","m","l">>
Bin == <<"b","i","n">>


----------------------------------------------------------------------------
(* The leaves of the pipeline *)

\* the scheme characters a URL parser accepts after the first letter
IsAlpha(c) == \E i \in 1..26 : Upper[i] = c \/ Lower[i] = c
IsSchemeChar(c) == IsAlpha(c) \/ IsDigit(c) \/ c \in {"+", "-", "."}

SpecialSchemes == { <<"h","t","t","p">>, <<"h","t","t","p","s">>,
                    <<"f","t","p">>, <<"w","s">>, <<"w","s","s">> }

RECURSIVE StripSlashes(_)
StripSlashes(s) ==
    IF Len(s) > 0 /\ s[1] \in {"/", "\\"} THEN StripSlashes(Tail(s)) ELSE s

\* new URL(input).protocol, or None when the constructor throws: leading and
\* trailing spaces are dropped, the text before the first ":" must be a
\* scheme (a letter, then letters, digits, "+", "-", "."), and a special
\* scheme needs a host after its slashes
URLProtocol(input) ==
    LET url == StripTrailing(StripLeading(input))
        i == indexOf(url, ":")
        scheme == toLowerCase(substring(url, 0, i))
        rest == StripSlashes(substringFrom(url, i + 1))
    IN  IF i <= 0 THEN None
        ELSE IF ~IsAlpha(url[1]) THEN None
        ELSE IF \E k \in 1..i : ~IsSchemeChar(url[k]) THEN None
        ELSE IF scheme \in SpecialSchemes /\ Len(rest) = 0 THEN None
        ELSE IF scheme \in SpecialSchemes /\ rest[1] \in {"/", "?", "#", ":"} THEN None
        ELSE scheme \o <<":">>

\* a check of the text's first characters in place of a parse
validateUrlPrefix(url) ==
    Len(url) >= 4 /\ toLowerCase(SubSeq(url, 1, 4)) = <<"h","t","t","p">>

validateUrl(url) ==
    LET protocol == URLProtocol(url)
    IN  IF protocol = None THEN FALSE ELSE protocol \in ALLOWED_PROTOCOLS

\* the characters of the class [\\/:*?"<>|]
IllegalCharacters == { "\\", "/", ":", "*", "?", "\"", "<", ">", "|" }

\* a replace without the g flag: only the first match is replaced
sanitizeFilenameFirstOnly(filename) ==
    [i \in 1..Len(filename) |->
        IF /\ filename[i] \in IllegalCharacters
           /\ \A j \in 1..(i - 1) : filename[j] \notin IllegalCharacters
        THEN "_" ELSE filename[i]]

\* filename.replace(/[\\/:*?"<>|]/g, "_")
sanitizeFilename(filename) ==
    [i \in 1..Len(filename) |->
        IF filename[i] \in IllegalCharacters THEN "_" ELSE filename[i]]

validateFilename(filename) ==
    LET ext == substringFrom(toLowerCase(filename), lastIndexOf(filename, "."))
    IN  ext \notin BLOCKED_EXTENSIONS

\* an allowlist test that forgets to lower-case the content type
validateContentTypeCaseSensitive(contentType) ==
    IF ~Truthy(contentType) THEN TRUE
    ELSE \E allowed \in ALLOWED_CONTENT_TYPES : includes(contentType, allowed)

validateContentType(contentType) ==
    IF ~Truthy(contentType) THEN TRUE
    ELSE LET lowerContentType == toLowerCase(contentType)
         IN  \E allowed \in ALLOWED_CONTENT_TYPES : includes(lowerContentType, allowed)

\* the mimeMap literal of getExtensionFromMimeType, in source order
mimeMap == <<
    <<App \o <<"p","d","f">>,
      <<"p","d","f">>>>,
    <<<<"i","m","a","g","e","/","j","p","e","g">>,
      <<"j","p","g">>>>,
    <<<<"i","m","a","g","e","/","p","n","g">>,
      <<"p","n","g">>>>,
    <<<<"i","m","a","g","e","/","g","i","f">>,
      <<"g","i","f">>>>,
    <<<<"i","m","a","g","e","/","s","v","g","+","x","m","l">>,
      <<"s","v","g">>>>,
    <<<<"t","e","x","t","/","p","l","a","i","n">>,
      <<"t","x","t">>>>,
    <<<<"t","e","x","t","/","m","a","r","k","d","o","w","n">>,
      <<"m","d">>>>,
    <<App \o <<"j","s","o","n">>,
      <<"j","s","o","n">>>>,
    <<App \o <<"z","i","p">>,
      <<"z","i","p">>>>,
    <<App \o <<"x","-","z","i","p","-","c","o","m","p","r","e","s","s","e","d">>,
      <<"z","i","p">>>>,
    <<App \o <<"m","s","w","o","r","d">>,
      <<"d","o","c">>>>,
    <<Ooxml \o <<".","w","o","r","d","p","r","o","c","e","s","s","i","n","g","m","l",".","d","o","c","u","m","e","n","t">>,
      <<"d","o","c","x">>>>,
    <<App \o <<"v","n","d",".","m","s","-","e","x","c","e","l">>,
      <<"x","l","s">>>>,
    <<Ooxml \o <<".","s","p","r","e","a","d","s","h","e","e","t","m","l",".","s","h","e","e","t">>,
      <<"x","l","s","x">>>>,
    <<<<"v","i","d","e","o","/","m","p","4">>,
      <<"m","p","4">>>>,
    <<<<"a","u","d","i","o","/","m","p","e","g">>,
      <<"m","p","3">>>>,
    <<<<"a","u","d","i","o","/","w","a","v">>,
      <<"w","a","v">>>> >>

\* mimeMap is an object literal: the names it inherits from Object.prototype
ObjectPrototype == {
    <<"c","o","n","s","t","r","u","c","t","o","r">>,
    <<"t","o","S","t","r","i","n","g">>,
    <<"t","o","L","o","c","a","l","e","S","t","r","i","n","g">>,
    <<"v","a","l","u","e","O","f">>,
    <<"h","a","s","O","w","n","P","r","o","p","e","r","t","y">>,
    <<"i","s","P","r","o","t","o","t","y","p","e","O","f">>,
    <<"p","r","o","p","e","r","t","y","I","s","E","n","u","m","e","r","a","b","l","e">>,
    <<"_","_","p","r","o","t","o","_","_">>,
    <<"_","_","d","e","f","i","n","e","G","e","t","t","e","r","_","_">>,
    <<"_","_","d","e","f","i","n","e","S","e","t","t","e","r","_","_">>,
    <<"_","_","l","o","o","k","u","p","G","e","t","t","e","r","_","_">>,
    <<"_","_","l","o","o","k","u","p","S","e","t","t","e","r","_","_">> }

\* what mimeMap[name] gives for an inherited name: a function (for __proto__
\* an object), truthy and not a string
InheritedMember == << "<member of Object.prototype>" >>

\* mimeMap[mimeType] || "bin"
getExtensionFromMimeType(mimeType) ==
    IF \E i \in 1..Len(mimeMap) : mimeMap[i][1] = mimeType
    THEN mimeMap[CHOOSE i \in 1..Len(mimeMap) : mimeMap[i][1] = mimeType][2]
    ELSE IF mimeType \in ObjectPrototype THEN InheritedMember
    ELSE Bin

\* an extension test that only asks for a "." anywhere in the path
ensureFileExtensionAnyDot(path, contentType) ==
    LET hasExtension == includes(path, <<".">>)
        extension == getExtensionFromMimeType(contentType)
    IN  IF ~hasExtension /\ Truthy(contentType) /\ extension # Bin
        THEN path \o <<".">> \o extension
        ELSE path

ensureFileExtension(path, contentType) ==
    LET hasExtension == includes(path, <<".">>)
                        /\ lastIndexOf(path, ".") > lastIndexOf(path, "/")
        extension == getExtensionFromMimeType(contentType)
    IN  IF ~hasExtension /\ Truthy(contentType) /\ extension # Bin
        THEN path \o <<".">> \o extension
        ELSE path

\* finalPath.substring(0, finalPath.lastIndexOf("/"))
FolderOf(path) == substring(path, 0, lastIndexOf(path, "/"))

----------------------------------------------------------------------------
(* Errors, the catch block and the notices *)

Err(kind, status, mb) == [kind |-> kind, status |-> status, mb |-> mb]
NoError == Err("none", 0, 0)

\* Math.round(size / (1024 * 1024))
RoundMB(size) == (2 * size + MiB) \div (2 * MiB)

\* The errors the pipeline throws itself, by the message each carries:
\*   OnlyHttp               "Only HTTP and HTTPS URLs are supported"
\*   FileTypeNotAllowed     "File type not allowed for security reasons"
\*   HttpError              "HTTP error! status: <status>"
\*   HttpErrorRetry         "HTTP error on retry! status: <status>"
\*   TooLarge               "File too large: <mb>MB (max: 20MB)"
\*   ContentTypeNotAllowed  "Content type not allowed for security reasons"
\*   Html                   "Server returned HTML instead of a file. ..."
\*   Empty                  "Downloaded file is empty"
\*   EmptyRetry             "Downloaded file is empty after retry"
\* and those of the transport and of the vault:
\*   FailedToFetch          "Failed to fetch"
\*   NetErr                 "net::ERR_CONNECTION_REFUSED"
\*   AlreadyExists          "File already exists."
\*   WriteError             "ENOSPC: no space left on device"
\*   NoMessage              a rejection value that is not an Error and has no
\*                          message property (a string, say)
TransportErrors == { Err("FailedToFetch", 0, 0), Err("NetErr", 0, 0) }

\* error.message is a string
HasMessage(error) == error.kind # "NoMessage"

\* error.message.includes(needle), for the needles the catch block looks for
MessageIncludes(error, needle) ==
    CASE needle = "not allowed for security reasons" ->
            error.kind \in {"FileTypeNotAllowed", "ContentTypeNotAllowed"}
      [] needle = "too large" -> error.kind = "TooLarge"
      [] needle = "Only HTTP and HTTPS" -> error.kind = "OnlyHttp"
      [] needle = "CORS" -> FALSE
      [] needle = "fetch" -> error.kind = "FailedToFetch"
      [] needle = "Failed to fetch" -> error.kind = "FailedToFetch"
      [] needle = "NetworkError" -> FALSE
      [] OTHER -> FALSE

Notice(type, shown, error, path) ==
    [type |-> type, shown |-> shown, error |-> error, path |-> path]

\* a catch block that tests error.message.includes with no guard
CatchMainUnguarded(error) ==
    IF ~HasMessage(error) THEN "TypeError"
    ELSE IF MessageIncludes(error, "not allowed for security reasons") THEN "message"
    ELSE IF MessageIncludes(error, "too large") THEN "message"
    ELSE IF MessageIncludes(error, "Only HTTP and HTTPS") THEN "message"
    ELSE IF MessageIncludes(error, "CORS") THEN "cors"
    ELSE IF MessageIncludes(error, "Failed to fetch") THEN "network"
    ELSE IF MessageIncludes(error, "NetworkError") THEN "network"
    ELSE "message"

\* the catch block of src/main.ts: which text the failure notice shows; each
\* test is guarded by "error.message &&", and the last branch shows
\* error.message || error
CatchMain(error) ==
    IF MessageIncludes(error, "not allowed for security reasons") THEN "message"
    ELSE IF MessageIncludes(error, "too large") THEN "message"
    ELSE IF MessageIncludes(error, "Only HTTP and HTTPS") THEN "message"
    ELSE IF MessageIncludes(error, "CORS") THEN "cors"
    ELSE IF MessageIncludes(error, "Failed to fetch") THEN "network"
    ELSE IF MessageIncludes(error, "NetworkError") THEN "network"
    ELSE "message"

\* the catch block of src/unnamed/part_000: error.message.includes is called
\* unguarded, a TypeError when error.message is undefined
CatchRelay(error) ==
    IF ~HasMessage(error) THEN "TypeError"
    ELSE IF MessageIncludes(error, "not allowed for security reasons") THEN "message"
    ELSE IF MessageIncludes(error, "too large") THEN "message"
    ELSE IF MessageIncludes(error, "Only HTTP and HTTPS") THEN "message"
    ELSE IF MessageIncludes(error, "CORS") \/ MessageIncludes(error, "fetch") THEN "cors"
    ELSE IF MessageIncludes(error, "Failed to fetch") THEN "network"
    ELSE IF MessageIncludes(error, "NetworkError") THEN "network"
    ELSE "message"

Catch(v, error) == IF v = "main" THEN CatchMain(error) ELSE CatchRelay(error)

----------------------------------------------------------------------------
(* Requests and responses *)

HeaderNames == {"Accept", "User-Agent", "Cache-Control", "Pragma", "Expires",
                "If-None-Match", "If-Modified-Since"}
Absent == "<absent>"

NoHeaders == [h \in HeaderNames |-> Absent]

\* { ...a, ...b } on header objects
Spread(a, b) == [h \in HeaderNames |-> IF b[h] # Absent THEN b[h] ELSE a[h]]

\* headers of the requestUrl call of src/main.ts
MainHeaders ==
    [NoHeaders EXCEPT !["User-Agent"] = "Obsidian Remote Fetch Plugin",
                      !["Cache-Control"] = "no-cache",
                      !["Pragma"] = "no-cache"]

\* fetchOptions.headers of src/unnamed/part_000 when the relay is enabled
ProxyHeaders ==
    [NoHeaders EXCEPT !["Accept"] = "*/*",
                      !["User-Agent"] = "Obsidian Remote Fetch Plugin",
                      !["Cache-Control"] = "no-cache",
                      !["Pragma"] = "no-cache"]

\* the headers the 304 branch adds
FreshHeaders ==
    [NoHeaders EXCEPT !["Cache-Control"] = "no-cache, no-store, must-revalidate",
                      !["Pragma"] = "no-cache",
                      !["Expires"] = "0",
                      !["If-None-Match"] = "",
                      !["If-Modified-Since"] = ""]

freshFetchOptions(fetchHeaders) == Spread(fetchHeaders, FreshHeaders)

\* encodeURIComponent: letters, digits and - _ . ! ~ * ' ( ) stay, the other
\* characters of the URLs used here become their %XX escape
EncodeChar(c) ==
    CASE c = ":" -> <<"%","3","A">>
      [] c = "/" -> <<"%","2","F">>
      [] c = "?" -> <<"%","3","F">>
      [] c = "=" -> <<"%","3","D">>
      [] c = "&" -> <<"%","2","6">>
      [] c = "%" -> <<"%","2","5">>
      [] c = " " -> <<"%","2","0">>
      [] OTHER -> <<c>>

RECURSIVE encodeURIComponent(_)
encodeURIComponent(s) ==
    IF Len(s) = 0 THEN <<>> ELSE EncodeChar(s[1]) \o encodeURIComponent(Tail(s))

\* fetchUrl and the first request's headers, from the settings
FetchUrl(st, url) ==
    IF st.enableCorsProxy THEN st.corsProxyUrl \o encodeURIComponent(url) ELSE url
FetchHeaders(st) == IF st.enableCorsProxy THEN ProxyHeaders ELSE NoHeaders

Body(of, len) == [of |-> of, len |-> len]
NoBody == Body(0, 0)

Response(status, contentLength, contentType, body) ==
    [status |-> status, contentLength |-> contentLength,
     contentType |-> contentType, body |-> body]
NoResponse == Response(0, None, None, NoBody)

\* response.ok
Ok(response) == response.status >= 200 /\ response.status <= 299

----------------------------------------------------------------------------
(* The gates of downloadFile, each giving the error it throws or NoError *)

\* a declared-size check with >= for >
validateFileSizeStrict(response) ==
    LET contentLength == response.contentLength
        size == parseInt(contentLength)
    IN  IF Truthy(contentLength) /\ (size = MAX_FILE_SIZE \/ GreaterThan(size, MAX_FILE_SIZE))
        THEN Err("TooLarge", 0, RoundMB(size))
        ELSE NoError

\* validateFileSize (part_000) and the inline size check of src/main.ts
validateFileSize(response) ==
    LET contentLength == response.contentLength
        size == parseInt(contentLength)
    IN  IF Truthy(contentLength) /\ GreaterThan(size, MAX_FILE_SIZE)
        THEN Err("TooLarge", 0, RoundMB(size))
        ELSE NoError

\* "Check if we got HTML instead of a file"
HtmlGate(contentType) ==
    IF Truthy(contentType) /\ includes(contentType, TextHtml)
    THEN Err("Html", 0, 0)
    ELSE NoError

ContentTypeGate(contentType) ==
    IF ~validateContentType(contentType)
    THEN Err("ContentTypeNotAllowed", 0, 0)
    ELSE NoError

\* the first error of a list of gate results, in order
RECURSIVE FirstError(_)
FirstError(results) ==
    IF Len(results) = 0 THEN NoError
    ELSE IF Head(results) # NoError THEN Head(results)
    ELSE FirstError(Tail(results))

\* response.headers["content-type"] || null
ContentTypeOrNull(response) ==
    IF Truthy(response.contentType) THEN response.contentType ELSE None

\* src/main.ts: status, declared size, content type, HTML
MainStatusGate(response) ==
    IF response.status # 200 THEN Err("HttpError", response.status, 0) ELSE NoError

MainHeaderGates(response) ==
    FirstError(<< MainStatusGate(response),
                  validateFileSize(response),
                  ContentTypeGate(ContentTypeOrNull(response)),
                  HtmlGate(ContentTypeOrNull(response)) >>)

\* part_000, first response: status, declared size, content type (twice)
RelayStatusGate(response) ==
    IF ~Ok(response) /\ response.status # 304
    THEN Err("HttpError", response.status, 0)
    ELSE NoError

RelayFirstGates(response) ==
    FirstError(<< RelayStatusGate(response),
                  validateFileSize(response),
                  ContentTypeGate(response.contentType),
                  ContentTypeGate(response.contentType) >>)

\* "Handle 304 Not Modified - try to get fresh content"
NeedsRetry(response) == response.status = 304

\* a retry that lets a second 304 through, as the first status check does
FreshStatusGateLets304(freshResponse) ==
    IF ~Ok(freshResponse) /\ freshResponse.status # 304
    THEN Err("HttpErrorRetry", freshResponse.status, 0)
    ELSE NoError

\* part_000, retry response: status, declared size, content type
FreshStatusGate(freshResponse) ==
    IF ~Ok(freshResponse)
    THEN Err("HttpErrorRetry", freshResponse.status, 0)
    ELSE NoError

RelayFreshGates(freshResponse) ==
    FirstError(<< FreshStatusGate(freshResponse),
                  validateFileSize(freshResponse),
                  ContentTypeGate(freshResponse.contentType) >>)

\* the checks on the buffer: empty, then actual size
EmptyGate(buffer, retried) ==
    IF buffer.len = 0
    THEN Err(IF retried THEN "EmptyRetry" ELSE "Empty", 0, 0)
    ELSE NoError

\* an actual-size check with >= for >
ActualSizeGateStrict(buffer) ==
    IF buffer.len >= MAX_FILE_SIZE
    THEN Err("TooLarge", 0, RoundMB(buffer.len))
    ELSE NoError

ActualSizeGate(buffer) ==
    IF buffer.len > MAX_FILE_SIZE
    THEN Err("TooLarge", 0, RoundMB(buffer.len))
    ELSE NoError

\* buffer checks without the actual-size check
BodyGatesNoSize(buffer, retried) == EmptyGate(buffer, retried)

BodyGates(buffer, retried) ==
    FirstError(<< EmptyGate(buffer, retried), ActualSizeGate(buffer) >>)

\* a 304 branch that reads response.arrayBuffer() for freshResponse's
BodyReadFirst(rec) == 1

\* the response whose arrayBuffer() part_000 awaits: freshResponse (the 2nd)
\* in the 304 branch, response (the 1st) otherwise
BodyRead(rec) == IF rec.retried THEN 2 ELSE 1

\* the content type the extension is resolved from
WriteContentType(v, rec) ==
    IF v = "main" THEN ContentTypeOrNull(rec.response)
    ELSE IF rec.retried THEN rec.freshResponse.contentType
    ELSE rec.response.contentType


----------------------------------------------------------------------------
(* The relay: the fetch handler of src/cors-proxy-worker.js.  A set of      *)
(* headers is a function from the lower-case header names to the header's   *)
(* value, None when the header is absent (a Headers object compares names   *)
(* without case and lists them in lower case).                              *)

\* String.prototype.startsWith and endsWith
startsWith(s, prefix) ==
    Len(s) >= Len(prefix) /\ SubSeq(s, 1, Len(prefix)) = prefix
endsWith(s, suffix) ==
    Len(s) >= Len(suffix) /\ SubSeq(s, Len(s) - Len(suffix) + 1, Len(s)) = suffix

\* the text of s before the first of the stop characters (all of s if none)
UpTo(s, stops) ==
    IF \E i \in 1..Len(s) : s[i] \in stops
    THEN SubSeq(s, 1, (CHOOSE i \in 1..Len(s) :
                          s[i] \in stops /\ \A j \in 1..(i - 1) : s[j] \notin stops) - 1)
    ELSE s

\* what follows "scheme:" and the slashes of an http(s), ftp or ws(s) URL
AfterScheme(url) ==
    LET u == trim(url) IN StripSlashes(substringFrom(u, indexOf(u, ":") + 1))

\* new URL(url).hostname of a URL that parses: the authority without user
\* information and port, in lower case; an IPv6 literal keeps its brackets.
\* (Dotted-decimal addresses are taken as written: the shorthand forms a URL
\* parser rewrites, 127.1 or 0x7f.0.0.1, are not among the inputs.)
Hostname(url) ==
    LET authority == UpTo(AfterScheme(url), {"/", "?", "#", "\\"})
        at == lastIndexOf(authority, "@")
        hostport == substringFrom(authority, at + 1)
        host == IF Len(hostport) > 0 /\ hostport[1] = "["
                THEN UpTo(hostport, {"]"}) \o <<"]">>
                ELSE UpTo(hostport, {":"})
    IN  toLowerCase(host)

\* new URL(url).pathname of such a URL
Pathname(url) ==
    LET rest == AfterScheme(url)
        authority == UpTo(rest, {"/", "?", "#", "\\"})
        path == UpTo(substringFrom(rest, Len(authority)), {"?", "#"})
    IN  IF Len(path) = 0 THEN <<"/">> ELSE path

WorkerHeaderNames ==
    { "accept", "accept-encoding", "accept-language", "cache-control", "referer",
      "user-agent", "pragma", "cookie", "authorization",
      "content-type", "content-length", "content-disposition",
      "content-encoding", "last-modified", "etag",
      "set-cookie", "location",
      "access-control-allow-origin", "access-control-allow-methods",
      "access-control-allow-headers", "access-control-max-age",
      "access-control-expose-headers" }

\* new Headers() / a headers literal with the given entries
WorkerHeaders(given) ==
    [h \in WorkerHeaderNames |-> IF h \in DOMAIN given THEN given[h] ELSE None]

Star == <<"*">>
AllMethods == <<"G","E","T",","," ","P","O","S","T",","," ","P","U","T",","," ","D","E","L","E","T","E",","," ","O","P","T","I","O","N","S">>
TextPlain == <<"t","e","x","t","/","p","l","a","i","n">>

\* the User-Agent the relay sends upstream
RelayUserAgent == <<"M","o","z","i","l","l","a","/","5",".","0"," ","(","W","i","n","d","o","w","s"," ","N","T"," ","1","0",".","0",";"," ","W","i","n","6","4",";"," ","x","6","4",")"," ","A","p","p","l","e","W","e","b","K","i","t","/","5","3","7",".","3","6"," ","(","K","H","T","M","L",","," ","l","i","k","e"," ","G","e","c","k","o",")"," ","C","h","r","o","m","e","/","1","2","0",".","0",".","0",".","0"," ","S","a","f","a","r","i","/","5","3","7",".","3","6">>

allowedHeaders ==
    { "accept", "accept-encoding", "accept-language", "cache-control", "referer" }

importantHeaders ==
    { "content-type", "content-length", "content-disposition",
      "content-encoding", "last-modified", "etag", "cache-control" }

\* a relay that hands every header of the client on
proxyHeadersAll(requestHeaders) ==
    [h \in WorkerHeaderNames |->
        IF requestHeaders[h] # None THEN requestHeaders[h]
        ELSE IF h = "user-agent" THEN RelayUserAgent
        ELSE None]

\* proxyHeaders: the fixed User-Agent, then every header of the request whose
\* lower-cased name is in allowedHeaders
proxyHeaders(requestHeaders) ==
    [h \in WorkerHeaderNames |->
        IF h \in allowedHeaders /\ requestHeaders[h] # None THEN requestHeaders[h]
        ELSE IF h = "user-agent" THEN RelayUserAgent
        ELSE None]

\* "Security: Block internal/private IP ranges"
BlockedHostname(hostname) ==
    \/ hostname = <<"l","o","c","a","l","h","o","s","t">>
    \/ hostname = <<"1","2","7",".","0",".","0",".","1">>
    \/ hostname = <<"0",".","0",".","0",".","0">>
    \/ startsWith(hostname, <<"1","9","2",".","1","6","8",".">>)
    \/ startsWith(hostname, <<"1","0",".">>)
    \/ startsWith(hostname, <<"1","7","2",".">>)

\* new Response(body, {status, headers}): text is the relay's own message,
\* forwarded the number of bytes of the upstream body handed to the client
Answer(status, headers, text, forwarded) ==
    [status |-> status, headers |-> headers, text |-> text, forwarded |-> forwarded]
NoAnswer == Answer(0, WorkerHeaders(<< >>), "", 0)

\* a reply without the cross-origin header
PlainAnswerNoOrigin(status, text) ==
    Answer(status, WorkerHeaders("content-type" :> TextPlain), text, 0)

\* the relay's own replies: a text, the cross-origin header, text/plain
PlainAnswer(status, text) ==
    Answer(status,
           WorkerHeaders("access-control-allow-origin" :> Star
                         @@ "content-type" :> TextPlain),
           text, 0)

\* "Handle CORS preflight requests"
PreflightAnswer ==
    Answer(200,
           WorkerHeaders("access-control-allow-origin" :> Star
                         @@ "access-control-allow-methods" :> AllMethods
                         @@ "access-control-allow-headers" :> Star
                         @@ "access-control-max-age" :> <<"8","6","4","0","0">>),
           "", 0)

\* the returns of the handler before its try block, NoAnswer when it goes on
EarlyAnswer(method, targetUrl) ==
    IF method = "OPTIONS" THEN PreflightAnswer
    ELSE IF ~Truthy(targetUrl)
    THEN PlainAnswer(400, "Missing 'url' query parameter.")
    ELSE IF URLProtocol(targetUrl) = None
    THEN PlainAnswer(400, "Invalid URL format.")
    ELSE IF BlockedHostname(Hostname(targetUrl))
    THEN PlainAnswer(403, "Access to internal/private networks is not allowed.")
    ELSE NoAnswer

\* fetch(validatedUrl.toString(), {method, headers: proxyHeaders, body})
UpstreamRequest(method, targetUrl, requestHeaders) ==
    [url |-> trim(targetUrl), method |-> method,
     headers |-> proxyHeaders(requestHeaders), body |-> method # "GET"]
NoUpstream ==
    [url |-> << >>, method |-> "", headers |-> WorkerHeaders(<< >>), body |-> FALSE]

\* the upstream answer: status, headers, and the length its body turns out
\* to have
Proxied(status, headers, bodyLen) ==
    [status |-> status, headers |-> headers, bodyLen |-> bodyLen]
NoProxied == Proxied(0, WorkerHeaders(<< >>), 0)

\* the relay's ceiling, 50 * 1024 * 1024
RELAY_MAX_SIZE == 50 * MiB

\* "If no content-type is set, try to guess from URL"
GuessContentType(pathname) ==
    LET p == toLowerCase(pathname)
    IN  IF endsWith(p, <<".","p","d","f">>) THEN <<"a","p","p","l","i","c","a","t","i","o","n","/","p","d","f">>
        ELSE IF endsWith(p, <<".","j","p","g">>) \/ endsWith(p, <<".","j","p","e","g">>) THEN <<"i","m","a","g","e","/","j","p","e","g">>
        ELSE IF endsWith(p, <<".","p","n","g">>) THEN <<"i","m","a","g","e","/","p","n","g">>
        ELSE IF endsWith(p, <<".","g","i","f">>) THEN <<"i","m","a","g","e","/","g","i","f">>
        ELSE IF endsWith(p, <<".","z","i","p">>) THEN <<"a","p","p","l","i","c","a","t","i","o","n","/","z","i","p">>
        ELSE <<"a","p","p","l","i","c","a","t","i","o","n","/","o","c","t","e","t","-","s","t","r","e","a","m">>

\* responseHeaders: the important headers of the upstream answer that have a
\* value, the four cross-origin headers, and a guessed content-type when
\* none was copied
responseHeaders(targetUrl, upstreamHeaders) ==
    LET copied == [h \in WorkerHeaderNames |->
                      IF h \in importantHeaders /\ Truthy(upstreamHeaders[h])
                      THEN upstreamHeaders[h] ELSE None]
        cors == [copied EXCEPT !["access-control-allow-origin"] = Star,
                               !["access-control-allow-methods"] = AllMethods,
                               !["access-control-allow-headers"] = Star,
                               !["access-control-expose-headers"] = Star]
    IN  IF ~Truthy(cors["content-type"])
        THEN [cors EXCEPT !["content-type"] = GuessContentType(Pathname(targetUrl))]
        ELSE cors

\* the handler from the return of the upstream fetch: the declared-size
\* check, then the upstream body streamed on under the upstream status
ForwardedAnswer(targetUrl, proxiedResponse) ==
    LET contentLength == proxiedResponse.headers["content-length"]
    IN  IF Truthy(contentLength) /\ GreaterThan(parseInt(contentLength), RELAY_MAX_SIZE)
        THEN PlainAnswer(413, "File too large (>50MB).")
        ELSE Answer(proxiedResponse.status,
                    responseHeaders(targetUrl, proxiedResponse.headers),
                    "<upstream body>", proxiedResponse.bodyLen)

\* what the upstream fetch rejects with: the abort of the 30 s timer, a
\* network failure, another error, a value without a message
UpstreamError(name, message) == [name |-> name, message |-> message]
UpstreamErrors ==
    { UpstreamError("AbortError", <<"T","h","e"," ","o","p","e","r","a","t","i","o","n"," ","w","a","s"," ","a","b","o","r","t","e","d">>),
      UpstreamError("TypeError", <<"f","e","t","c","h"," ","f","a","i","l","e","d">>),
      UpstreamError("Error", <<"i","n","t","e","r","n","a","l"," ","e","r","r","o","r">>),
      UpstreamError("Error", None) }

\* the catch block of the handler
ErrorAnswer(err) ==
    IF err.name = "AbortError" THEN PlainAnswer(504, "Request timeout (30s)")
    ELSE IF Truthy(err.message) /\ includes(err.message, <<"f","e","t","c","h">>)
    THEN PlainAnswer(502, "Network error or invalid URL")
    ELSE PlainAnswer(502, "Error: ${err.message}")

\* the relay worker is handling no request
NoWorker ==
    [pc |-> "none", method |-> "", targetUrl |-> None,
     headers |-> WorkerHeaders(<< >>), upstream |-> NoUpstream,
     proxied |-> NoProxied, response |-> NoAnswer]
----------------------------------------------------------------------------
(* Inputs *)

HttpsUrl == <<"h","t","t","p","s",":","/","/","e",".","x","/","f">>
FtpUrl == <<"f","t","p",":","/","/","e",".","x","/","f">>
NotAUrl == <<"e",".","x">>

Urls == { HttpsUrl, FtpUrl, NotAUrl }

PathDocsReport == <<"d","/","r">>          \* folder d, no extension
PathReportPdf == <<"r",".","p","d","f">>   \* vault root, extension
PathExe == <<"a",".","e","x","e">>
PathUpperExe == <<"d","/","S",".","E","X","E">>
PathIDotExe == <<CapitalIDot,".","e","x","e">>   \* U+0130, then .exe

TargetPaths == { PathDocsReport, PathReportPdf, PathExe, PathUpperExe,
                 PathIDotExe }

Statuses == {200, 201, 304, 404}

TypePdf == <<"a","p","p","l","i","c","a","t","i","o","n","/","p","d","f">>
TypePlainCharset == <<"t","e","x","t","/","p","l","a","i","n",";"," ","c","h","a","r","s","e","t","=","u","t","f","-","8">>
TypeUpperPng == <<"I","M","A","G","E","/","P","N","G">>
TypeHtml == <<"t","e","x","t","/","h","t","m","l">>
TypeHtmlCharset == <<"t","e","x","t","/","h","t","m","l",";"," ","c","h","a","r","s","e","t","=","u","t","f","-","8">>
TypeMsDownload == <<"a","p","p","l","i","c","a","t","i","o","n","/","x","-","m","s","d","o","w","n","l","o","a","d">>

ContentTypes == { None, TypePdf, TypePlainCharset, TypeUpperPng, TypeHtml,
                  TypeHtmlCharset, TypeMsDownload }

Over == { MAX_FILE_SIZE + k : k \in 1..MaxOver }

ContentLengths == { None, ToDigits(MAX_FILE_SIZE) } \cup { ToDigits(n) : n \in Over }

BodyLengths == { 0, 1, MAX_FILE_SIZE } \cup Over

\* the status line and headers a server can answer with; fetch resolves
\* with these, the body still in flight
Responses ==
    { Response(st, cl, ct, NoBody) :
        st \in Statuses, cl \in ContentLengths, ct \in ContentTypes }

\* the bodies the n-th response of a run can turn out to have
Bodies(n) == { Body(n, len) : len \in BodyLengths }

\* requestUrl resolves with the body already buffered
FullResponses ==
    { [response EXCEPT !.body = body] : response \in Responses, body \in Bodies(1) }

FolderD == <<"d">>
OldFile == <<"d","/","r",".","p","d","f">>
OldBytes == Body(0, 1)

Vault(folders, files) == [folders |-> folders, files |-> files]

InitialVaults == {
    Vault({}, <<>>),
    Vault({FolderD}, <<>>),
    Vault({FolderD}, [p \in {OldFile} |-> OldBytes]) }

RelayUrl == <<"h","t","t","p","s",":","/","/","p",".","x","/","?","u","r","l","=">>

\* another relay the user can configure
OtherRelayUrl == <<"h","t","t","p","s",":","/","/","q",".","x","/","?","u","r","l","=">>

\* the settings of a run that has not read them
NoSettings == [enableCorsProxy |-> FALSE, corsProxyUrl |-> <<>>]

\* what the settings tab can set the two relay fields to
RelaySettings ==
    { [enableCorsProxy |-> on, corsProxyUrl |-> relay] :
        on \in BOOLEAN, relay \in { RelayUrl, OtherRelayUrl } }

\* the vault of the runs that are watched for their requests
RelayVault == Vault({FolderD}, <<>>)

InitialSettings(v) ==
    IF v = "main"
    THEN { [enableCorsProxy |-> FALSE, corsProxyUrl |-> <<>>] }
    ELSE { [enableCorsProxy |-> on, corsProxyUrl |-> RelayUrl] : on \in BOOLEAN }

\* one invocation of downloadFile
RunIds == {1}

InitRun ==
    [pc |-> "idle", url |-> <<>>, targetPath |-> <<>>,
     fetchUrl |-> <<>>, fetchHeaders |-> NoHeaders,
     response |-> NoResponse, freshResponse |-> NoResponse, retried |-> FALSE,
     buffer |-> NoBody, finalPath |-> <<>>, folderPath |-> <<>>,
     requests |-> <<>>, notices |-> <<>>, log |-> <<>>, error |-> NoError,
     vaultAtCall |-> Vault({}, <<>>),
     settingsAtCall |-> NoSettings, settingsAtRetry |-> NoSettings]

\* no modal is open: downloadFile is called on the plugin
NoModal ==
    [pc |-> "none", url |-> <<>>, filename |-> <<>>, folder |-> <<>>,
     disabled |-> FALSE, notices |-> <<>>, targetPath |-> <<>>,
     vaultAtSubmit |-> Vault({}, <<>>)]

\* no helper is being called
NoLeaf ==
    [fn |-> "none", arg |-> <<>>, contentType |-> None, calls |-> 0,
     ok |-> FALSE, out |-> <<>>, first |-> <<>>]

Init ==
    /\ variant \in {"main", "part_000"}
    /\ settings \in InitialSettings(variant)
    /\ vault \in InitialVaults
    /\ run = [r \in RunIds |-> InitRun]
    /\ modal = NoModal
    /\ leaf = NoLeaf
    /\ worker = NoWorker

----------------------------------------------------------------------------
(* The vault *)

Exists(vlt, path) == path \in vlt.folders \/ path \in DOMAIN vlt.files

\* the folder a file path lies in exists (the root always does)
ParentExists(vlt, path) ==
    LET parent == FolderOf(path) IN Len(parent) = 0 \/ parent \in vlt.folders

WithFolder(vlt, path) == [vlt EXCEPT !.folders = @ \cup {path}]

WithFile(vlt, path, data) ==
    [vlt EXCEPT !.files = [p \in DOMAIN @ \cup {path} |->
                              IF p = path THEN data ELSE @[p]]]

----------------------------------------------------------------------------
(* downloadFile, one action per stretch of code between two awaits *)

Request(url, headers) == [url |-> url, headers |-> headers]

\* the catch block: console.error, then one "Download failed" notice; an
\* exception thrown inside the catch block leaves downloadFile, whose promise
\* rejects
Failed(v, rec, error) ==
    IF Catch(v, error) = "TypeError"
    THEN [rec EXCEPT !.pc = "rejected",
                     !.error = error,
                     !.log = Append(@, "rejected")]
    ELSE [rec EXCEPT !.pc = "failed",
                     !.error = error,
                     !.notices = Append(@, Notice("failed", Catch(v, error), error, <<>>)),
                     !.log = Append(@, "failed")]

\* a write that never calls createFolder
StartWriteNoFolder(v, rec) ==
    LET finalPath == ensureFileExtension(rec.targetPath, WriteContentType(v, rec))
    IN  [rec EXCEPT !.finalPath = finalPath,
                    !.folderPath = FolderOf(finalPath),
                    !.pc = "creatingBinary",
                    !.log = Append(@, "createBinary")]

\* ensureFileExtension, the folder path, and the first vault call
StartWrite(v, rec) ==
    LET finalPath == ensureFileExtension(rec.targetPath, WriteContentType(v, rec))
        folderPath == FolderOf(finalPath)
    IN  [rec EXCEPT !.finalPath = finalPath,
                    !.folderPath = folderPath,
                    !.pc = IF Len(folderPath) > 0 THEN "creatingFolder"
                           ELSE "creatingBinary",
                    !.log = Append(@, IF Len(folderPath) > 0 THEN "createFolder"
                                      ELSE "createBinary")]

\* the body checks, then the write
CheckBodyAndWrite(v, rec, buffer) ==
    LET read == [rec EXCEPT !.buffer = buffer, !.log = Append(@, "readBody")]
        error == BodyGates(buffer, rec.retried)
    IN  IF error # NoError THEN Failed(v, read, error)
        ELSE StartWrite(v, read)

\* a downloadFile that trusts the form's pre-flight check of the filename
ValidateUrlOnly(url, targetPath) ==
    IF ~validateUrl(url) THEN Err("OnlyHttp", 0, 0) ELSE NoError

\* the two validations and the first request
Validate(url, targetPath) ==
    IF ~validateUrl(url) THEN Err("OnlyHttp", 0, 0)
    ELSE IF ~validateFilename(lastSegment(targetPath))
    THEN Err("FileTypeNotAllowed", 0, 0)
    ELSE NoError

FirstRequest(v, st, url) ==
    IF v = "main" THEN Request(url, MainHeaders)
    ELSE Request(FetchUrl(st, url), FetchHeaders(st))

\* downloadFile(url, targetPath) up to its first await
DownloadFileCall(v, st, vlt, idle, url, targetPath) ==
    LET rec == [idle EXCEPT !.url = url, !.targetPath = targetPath,
                            !.vaultAtCall = vlt, !.settingsAtCall = st]
        error == Validate(url, targetPath)
        req == FirstRequest(v, st, url)
    IN  IF error # NoError THEN Failed(v, rec, error)
        ELSE [rec EXCEPT !.pc = "fetching",
                         !.fetchUrl = req.url,
                         !.fetchHeaders = req.headers,
                         !.notices = Append(@, Notice("starting", "", NoError, <<>>)),
                         !.requests = Append(@, req),
                         !.log = Append(@, "request")]

\* downloadFile is called on the plugin
Call(r) ==
    /\ run[r].pc = "idle"
    /\ \E url \in Urls, targetPath \in TargetPaths :
         run' = [run EXCEPT ![r] =
                    DownloadFileCall(variant, settings, vault, @, url, targetPath)]
    /\ UNCHANGED <<worker, variant, settings, vault, modal, leaf>>

\* src/main.ts from the return of requestUrl to the first vault call
AfterResponseMain(rec, response) ==
    LET got == [rec EXCEPT !.response = response]
        error == MainHeaderGates(response)
    IN  IF error # NoError THEN Failed("main", got, error)
        ELSE CheckBodyAndWrite("main", got, response.body)

\* a retry that builds its URL and options from the settings again
RetryRequestRereads(rec, st) ==
    Request(FetchUrl(st, rec.url), freshFetchOptions(FetchHeaders(st)))

\* fetch(fetchUrl, freshFetchOptions): the URL and the options of the first
\* request, with the anti-cache headers on top
RetryRequest(rec, st) ==
    Request(rec.fetchUrl, freshFetchOptions(rec.fetchHeaders))

\* part_000 from the return of the first fetch to the next await
\* (settingsAtRetry records the settings in force then, which the code does
\* not read)
AfterResponseRelay(rec, response) ==
    LET got == [rec EXCEPT !.response = response]
        error == RelayFirstGates(response)
        html == HtmlGate(response.contentType)
    IN  IF error # NoError THEN Failed("part_000", got, error)
        ELSE IF NeedsRetry(response)
        THEN [got EXCEPT !.pc = "retrying",
                         !.retried = TRUE,
                         !.notices = Append(@, Notice("retrying", "", NoError, <<>>)),
                         !.settingsAtRetry = settings,
                         !.requests = Append(@, RetryRequest(rec, settings)),
                         !.log = Append(@, "request")]
        ELSE IF html # NoError THEN Failed("part_000", got, html)
        ELSE [got EXCEPT !.pc = "readingBody"]

\* the first request returns a response
FetchReturn(r) ==
    /\ run[r].pc = "fetching"
    /\ \/ /\ variant = "main"
          /\ \E response \in FullResponses :
               run' = [run EXCEPT ![r] = AfterResponseMain(@, response)]
       \/ /\ variant = "part_000"
          /\ \E response \in Responses :
               run' = [run EXCEPT ![r] = AfterResponseRelay(@, response)]
    /\ UNCHANGED <<worker, variant, settings, vault, modal, leaf>>

\* a request (the first or the retry) rejects
FetchThrow(r) ==
    /\ run[r].pc \in {"fetching", "retrying"}
    /\ \E error \in TransportErrors :
         run' = [run EXCEPT ![r] = Failed(variant, @, error)]
    /\ UNCHANGED <<worker, variant, settings, vault, modal, leaf>>

\* part_000 from the return of the retry to its arrayBuffer() await
AfterFreshResponse(rec, freshResponse) ==
    LET got == [rec EXCEPT !.freshResponse = freshResponse]
        error == RelayFreshGates(freshResponse)
    IN  IF error # NoError THEN Failed("part_000", got, error)
        ELSE [got EXCEPT !.pc = "readingBody"]

FreshFetchReturn(r) ==
    /\ run[r].pc = "retrying"
    /\ \E freshResponse \in Responses :
         run' = [run EXCEPT ![r] = AfterFreshResponse(@, freshResponse)]
    /\ UNCHANGED <<worker, variant, settings, vault, modal, leaf>>

\* part_000: arrayBuffer() resolves; the body checks and the first vault call
ArrayBufferReturn(r) ==
    /\ run[r].pc = "readingBody"
    /\ \E buffer \in Bodies(BodyRead(run[r])) :
         run' = [run EXCEPT ![r] = CheckBodyAndWrite("part_000", @, buffer)]
    /\ UNCHANGED <<worker, variant, settings, vault, modal, leaf>>

\* part_000: arrayBuffer() rejects (the connection drops in the body)
ArrayBufferThrow(r) ==
    /\ run[r].pc = "readingBody"
    /\ \E error \in TransportErrors :
         run' = [run EXCEPT ![r] = Failed(variant, @, error)]
    /\ UNCHANGED <<worker, variant, settings, vault, modal, leaf>>

\* createFolder settles: the folder is made, or the call rejects (the folder
\* is there already, or the disk refuses) and .catch(() => {}) swallows it;
\* either way createBinary is called next
CreateFolderReturn(r) ==
    /\ run[r].pc = "creatingFolder"
    /\ \/ /\ ~Exists(vault, run[r].folderPath)
          /\ vault' = WithFolder(vault, run[r].folderPath)
       \/ vault' = vault
    /\ run' = [run EXCEPT ![r].pc = "creatingBinary",
                          ![r].log = Append(@, "createBinary")]
    /\ UNCHANGED <<worker, variant, settings, modal, leaf>>

\* what createBinary is called with
BinaryPath(rec) == rec.finalPath
BinaryData(rec) == rec.buffer

\* a vault whose createBinary replaces the file at a path that is taken
CreateBinaryOverwrites(r) ==
    /\ run[r].pc = "creatingBinary"
    /\ ParentExists(vault, BinaryPath(run[r]))
    /\ vault' = WithFile(vault, BinaryPath(run[r]), BinaryData(run[r]))
    /\ run' = [run EXCEPT ![r].pc = "done",
                          ![r].notices = Append(@, Notice("success", "", NoError,
                                                          run[r].finalPath)),
                          ![r].log = Append(Append(@, "written"), "success")]
    /\ UNCHANGED <<variant, settings, modal, leaf, worker>>

\* createBinary resolves: the file is written, then the success notice
CreateBinaryReturn(r) ==
    /\ run[r].pc = "creatingBinary"
    /\ ~Exists(vault, BinaryPath(run[r]))
    /\ ParentExists(vault, BinaryPath(run[r]))
    /\ vault' = WithFile(vault, BinaryPath(run[r]), BinaryData(run[r]))
    /\ run' = [run EXCEPT ![r].pc = "done",
                          ![r].notices = Append(@, Notice("success", "", NoError,
                                                          run[r].finalPath)),
                          ![r].log = Append(Append(@, "written"), "success")]
    /\ UNCHANGED <<worker, variant, settings, modal, leaf>>

\* what a rejecting createBinary rejects with: an Error saying the path is
\* taken or the write failed, or a value of the host that is not an Error
VaultErrors(vlt, path) ==
    { IF Exists(vlt, path) THEN Err("AlreadyExists", 0, 0)
                           ELSE Err("WriteError", 0, 0),
      Err("NoMessage", 0, 0) }

\* createBinary rejects: the path is taken, or the write fails
CreateBinaryThrow(r) ==
    /\ run[r].pc = "creatingBinary"
    /\ \E error \in VaultErrors(vault, BinaryPath(run[r])) :
         run' = [run EXCEPT ![r] = Failed(variant, @, error)]
    /\ UNCHANGED <<worker, variant, settings, vault, modal, leaf>>

Next ==
    \/ \E r \in RunIds : Call(r)
    \/ \E r \in RunIds : FetchReturn(r)
    \/ \E r \in RunIds : FetchThrow(r)
    \/ \E r \in RunIds : FreshFetchReturn(r)
    \/ \E r \in RunIds : ArrayBufferReturn(r)
    \/ \E r \in RunIds : ArrayBufferThrow(r)
    \/ \E r \in RunIds : CreateFolderReturn(r)
    \/ \E r \in RunIds : CreateBinaryReturn(r)
    \/ \E r \in RunIds : CreateBinaryThrow(r)

Spec == Init /\ [][Next]_vars


----------------------------------------------------------------------------
(* part_000 in relay mode with the settings tab: the relay fields change    *)
(* while a run waits for the answer to its first request                    *)

\* an onChange handler of the settings tab sets a relay field
SaveSettings ==
    /\ variant = "part_000"
    /\ \E r \in RunIds : run[r].pc = "fetching"
    /\ settings' \in RelaySettings \ {settings}
    /\ UNCHANGED <<worker, variant, vault, run, modal, leaf>>

RelayInit ==
    /\ variant = "part_000"
    /\ settings \in { st \in RelaySettings : st.enableCorsProxy }
    /\ vault = RelayVault
    /\ run = [r \in RunIds |-> InitRun]
    /\ modal = NoModal
    /\ leaf = NoLeaf
    /\ worker = NoWorker

RelayNext ==
    \/ \E r \in RunIds : Call(r)
    \/ \E r \in RunIds : FetchReturn(r)
    \/ \E r \in RunIds : FetchThrow(r)
    \/ \E r \in RunIds : FreshFetchReturn(r)
    \/ \E r \in RunIds : ArrayBufferReturn(r)
    \/ \E r \in RunIds : ArrayBufferThrow(r)
    \/ \E r \in RunIds : CreateFolderReturn(r)
    \/ \E r \in RunIds : CreateBinaryReturn(r)
    \/ \E r \in RunIds : CreateBinaryThrow(r)
    \/ SaveSettings

RelaySpec == RelayInit /\ [][RelayNext]_vars
----------------------------------------------------------------------------
(* The form of RemoteFetchModal: handleDownload and the call it makes       *)

HttpsUrlSpaced == <<" ">> \o HttpsUrl \o <<" ">>
FormUrls == { EmptyString, HttpsUrlSpaced, FtpUrl, NotAUrl }

NameR == <<"r">>
FormFilenames == { EmptyString, NameR, PathReportPdf, PathExe }

FolderDotDot == <<".",".">>
FormFolders == { EmptyString, FolderD, FolderDotDot }

\* the modal as onOpen leaves it, the fields filled in by the user
OpenModal(url, filename, folder) ==
    [NoModal EXCEPT !.pc = "open", !.url = url, !.filename = filename,
                    !.folder = folder]

\* the folder of the target path: the folder field, trimmed (src/main.ts),
\* or the folder picked in the folder modal (part_000)
SelectedFolder(v, folder) == IF v = "main" THEN trim(folder) ELSE folder

\* `${selectedFolder}/${filename}`, or the file name alone
TargetPath(selectedFolder, filename) ==
    IF Len(selectedFolder) > 0 THEN selectedFolder \o <<"/">> \o filename
    ELSE filename

\* the protocols the form accepts
FormProtocols == { <<"h","t","t","p","s",":">>, <<"h","t","t","p",":">> }

\* "Validate URL format and protocol" in handleDownload: the notice, or "ok"
FormUrlCheck(url) ==
    IF URLProtocol(url) = None THEN "Please enter a valid URL"
    ELSE IF URLProtocol(url) \notin FormProtocols
    THEN "Only HTTP and HTTPS URLs are supported"
    ELSE "ok"

\* the target path handleDownload builds from the form
FormTargetPath(v, md) ==
    TargetPath(SelectedFolder(v, md.folder), sanitizeFilename(trim(md.filename)))

\* a form that does not look the target path up in the vault
PreflightNoLookup(v, vlt, md) ==
    LET url == trim(md.url)
        typed == trim(md.filename)
        filename == sanitizeFilename(typed)
        ext == substringFrom(toLowerCase(filename), lastIndexOf(filename, "."))
    IN  IF Len(url) = 0 THEN "Please enter a URL"
        ELSE IF Len(typed) = 0 THEN "Please enter a filename"
        ELSE IF FormUrlCheck(url) # "ok" THEN FormUrlCheck(url)
        ELSE IF ext \in BLOCKED_EXTENSIONS
        THEN "File type not allowed for security reasons"
        ELSE "ok"

\* the checks of handleDownload before it calls downloadFile: the notice it
\* shows and returns on, or "ok"
Preflight(v, vlt, md) ==
    LET url == trim(md.url)
        typed == trim(md.filename)
        filename == sanitizeFilename(typed)
        ext == substringFrom(toLowerCase(filename), lastIndexOf(filename, "."))
    IN  IF Len(url) = 0 THEN "Please enter a URL"
        ELSE IF Len(typed) = 0 THEN "Please enter a filename"
        ELSE IF FormUrlCheck(url) # "ok" THEN FormUrlCheck(url)
        ELSE IF ext \in BLOCKED_EXTENSIONS
        THEN "File type not allowed for security reasons"
        ELSE IF Exists(vlt, FormTargetPath(v, md))
        THEN "File already exists at this location"
        ELSE "ok"

\* handleDownload up to its await: the checks, showLoadingState, and the
\* call of downloadFile up to its own first await
HandleDownload(r) ==
    /\ modal.pc = "open"
    /\ run[r].pc = "idle"
    /\ LET notice == Preflight(variant, vault, modal)
           targetPath == FormTargetPath(variant, modal)
       IN  IF notice # "ok"
           THEN /\ modal' = [modal EXCEPT !.pc = "returned",
                                          !.notices = Append(@, notice),
                                          !.vaultAtSubmit = vault]
                /\ run' = run
           ELSE /\ modal' = [modal EXCEPT !.pc = "downloading",
                                          !.disabled = TRUE,
                                          !.targetPath = targetPath,
                                          !.vaultAtSubmit = vault]
                /\ run' = [run EXCEPT ![r] =
                              DownloadFileCall(variant, settings, vault, @,
                                               trim(modal.url), targetPath)]
    /\ UNCHANGED <<worker, variant, settings, vault, leaf>>

\* downloadFile returns: this.close()
DownloadFileReturn(r) ==
    /\ modal.pc = "downloading"
    /\ run[r].pc \in {"done", "failed"}
    /\ modal' = [modal EXCEPT !.pc = "closed"]
    /\ UNCHANGED <<worker, variant, settings, vault, run, leaf>>

\* downloadFile rejects: the catch of handleDownload, hideLoadingState
DownloadFileThrow(r) ==
    /\ modal.pc = "downloading"
    /\ run[r].pc = "rejected"
    /\ modal' = [modal EXCEPT !.pc = "reenabled", !.disabled = FALSE]
    /\ UNCHANGED <<worker, variant, settings, vault, run, leaf>>

\* the vaults the form is opened on: folder d, with or without d/r.pdf
FormVaults == { vlt \in InitialVaults : FolderD \in vlt.folders }

\* DEFAULT_SETTINGS
DefaultSettings(v) ==
    IF v = "main" THEN [enableCorsProxy |-> FALSE, corsProxyUrl |-> <<>>]
    ELSE [enableCorsProxy |-> TRUE, corsProxyUrl |-> RelayUrl]

FormInit ==
    /\ variant \in {"main", "part_000"}
    /\ settings = DefaultSettings(variant)
    /\ vault \in FormVaults
    /\ run = [r \in RunIds |-> InitRun]
    /\ modal \in { OpenModal(url, filename, folder) :
                      url \in FormUrls, filename \in FormFilenames,
                      folder \in FormFolders }
    /\ leaf = NoLeaf
    /\ worker = NoWorker

FormNext ==
    \/ \E r \in RunIds : HandleDownload(r)
    \/ \E r \in RunIds : FetchReturn(r)
    \/ \E r \in RunIds : FetchThrow(r)
    \/ \E r \in RunIds : FreshFetchReturn(r)
    \/ \E r \in RunIds : ArrayBufferReturn(r)
    \/ \E r \in RunIds : ArrayBufferThrow(r)
    \/ \E r \in RunIds : CreateFolderReturn(r)
    \/ \E r \in RunIds : CreateBinaryReturn(r)
    \/ \E r \in RunIds : CreateBinaryThrow(r)
    \/ \E r \in RunIds : DownloadFileReturn(r)
    \/ \E r \in RunIds : DownloadFileThrow(r)

FormSpec == FormInit /\ [][FormNext]_vars
----------------------------------------------------------------------------
(* The helpers of the plugin called on their own: the argument is drawn     *)
(* when the call is set up, the action is the call                          *)

Leaf(fn, arg, contentType) ==
    [NoLeaf EXCEPT !.fn = fn, !.arg = arg, !.contentType = contentType]

PathR == <<"r">>
PathDotR == <<".","r">>
PathDottedFolder == <<"d",".","x","/","r">>
PathTrailingDot == <<"d","/","r",".">>

ExtensionPaths ==
    { PathR, PathDocsReport, PathReportPdf, OldFile, PathDottedFolder,
      PathTrailingDot, PathDotR, PathUpperExe }

TypePng == <<"i","m","a","g","e","/","p","n","g">>
TypeJpeg == <<"i","m","a","g","e","/","j","p","e","g">>
TypeOctetStream == <<"a","p","p","l","i","c","a","t","i","o","n","/","o","c","t","e","t","-","s","t","r","e","a","m">>

ExtensionContentTypes ==
    { None, EmptyString, TypePdf, TypePng, TypeJpeg, TypePlainCharset,
      TypeUpperPng, TypeOctetStream }

EnsureFileExtensionCalls ==
    { Leaf("ensureFileExtension", path, contentType) :
        path \in ExtensionPaths, contentType \in ExtensionContentTypes }

\* texts that are absolute http or https URLs, as the URL parser reads them:
\* the scheme in any case, spaces around the text dropped, the slashes after
\* the scheme optional
UrlTextsHttp == {
    <<"h","t","t","p","s",":","/","/","e",".","x","/","f">>,
    <<"h","t","t","p",":","/","/","e",".","x">>,
    <<"H","T","T","P",":","/","/","e",".","x">>,
    <<" ","h","t","t","p","s",":","/","/","e",".","x","/","f"," ">>,
    <<"h","t","t","p",":","e",".","x">>,
    <<"h","t","t","p","s",":","/","e",".","x">> }

\* texts with another scheme, and texts the URL parser rejects
UrlTextsOther == {
    <<"f","t","p",":","/","/","e",".","x","/","f">>,
    <<"f","i","l","e",":","/","/","/","x">>,
    <<"e",".","x">>,
    <<>>,
    <<"h","t","t","p","s",":","/","/">>,
    <<"h","t","t","p",":","/","/">>,
    <<"/","/","e",".","x","/","f">>,
    <<"j","a","v","a","s","c","r","i","p","t",":","a","l","e","r","t","(","1",")">>,
    <<"m","a","i","l","t","o",":","a","@","b">>,
    <<"h","t","p",":","/","/","e",".","x">>,
    <<"h","t","t","p","s","/","/","e",".","x">>,
    <<":">>,
    <<"1","h","t","t","p",":","/","/","e",".","x">>,
    <<"h","t","t","p","s",":","/","/","?","x">>,
    <<"h","t","t","p","x",":","/","/","e",".","x">> }

UrlTexts == UrlTextsHttp \cup UrlTextsOther

ValidateUrlCalls == { Leaf("validateUrl", url, None) : url \in UrlTexts }
FormUrlCheckCalls == { Leaf("formUrlCheck", url, None) : url \in UrlTexts }

\* every string of at most n characters of the alphabet
RECURSIVE StringsUpTo(_, _)
StringsUpTo(alphabet, n) ==
    IF n = 0 THEN { << >> }
    ELSE LET shorter == StringsUpTo(alphabet, n - 1)
         IN  shorter \cup { Append(s, c) : s \in { t \in shorter : Len(t) = n - 1 },
                                            c \in alphabet }

\* file names made of the letters of "exe" in both cases, the dot and U+0130
NameAlphabet == { "e", "x", "E", "X", ".", CapitalIDot }
FilenameTexts == StringsUpTo(NameAlphabet, MaxNameLen)

ValidateFilenameCalls ==
    { Leaf("validateFilename", filename, None) : filename \in FilenameTexts }

\* the names of the table, and strings that are not in it: another case, a
\* parameter after the type, the sentinel itself, the empty string, and the
\* names every object has
MimeTableKeys == { mimeMap[i][1] : i \in 1..Len(mimeMap) }
MimeOtherTexts ==
    { EmptyString, Bin, TypeUpperPng, TypePlainCharset, TypeHtml,
      TypeMsDownload, TypeOctetStream } \cup ObjectPrototype

GetExtensionCalls ==
    { Leaf("getExtensionFromMimeType", mimeType, None) :
        mimeType \in MimeTableKeys \cup MimeOtherTexts }

\* file names made of the nine characters, the underscore, a letter, a dot
SanitizeAlphabet == IllegalCharacters \cup { "_", "a", "." }
SanitizeTexts == StringsUpTo(SanitizeAlphabet, MaxSanitizeLen)

SanitizeFilenameCalls ==
    { Leaf("sanitizeFilename", filename, None) : filename \in SanitizeTexts }

LeafInputs ==
    EnsureFileExtensionCalls \cup ValidateUrlCalls \cup FormUrlCheckCalls
    \cup ValidateFilenameCalls \cup GetExtensionCalls
    \cup SanitizeFilenameCalls

LeafInit ==
    /\ variant = "main"
    /\ settings \in InitialSettings("main")
    /\ vault = Vault({}, <<>>)
    /\ run = [r \in RunIds |-> InitRun]
    /\ modal = NoModal
    /\ leaf \in LeafInputs
    /\ worker = NoWorker

CallEnsureFileExtension ==
    /\ leaf.fn = "ensureFileExtension" /\ leaf.calls = 0
    /\ leaf' = [leaf EXCEPT !.calls = 1,
                            !.out = ensureFileExtension(leaf.arg, leaf.contentType)]
    /\ UNCHANGED <<worker, variant, settings, vault, run, modal>>

CallValidateUrl ==
    /\ leaf.fn = "validateUrl" /\ leaf.calls = 0
    /\ leaf' = [leaf EXCEPT !.calls = 1, !.ok = validateUrl(leaf.arg)]
    /\ UNCHANGED <<worker, variant, settings, vault, run, modal>>

\* the URL check of handleDownload, on the text it would pass to downloadFile
CallFormUrlCheck ==
    /\ leaf.fn = "formUrlCheck" /\ leaf.calls = 0
    /\ leaf' = [leaf EXCEPT !.calls = 1, !.ok = (FormUrlCheck(leaf.arg) = "ok")]
    /\ UNCHANGED <<worker, variant, settings, vault, run, modal>>

CallValidateFilename ==
    /\ leaf.fn = "validateFilename" /\ leaf.calls = 0
    /\ leaf' = [leaf EXCEPT !.calls = 1, !.ok = validateFilename(leaf.arg)]
    /\ UNCHANGED <<worker, variant, settings, vault, run, modal>>

CallGetExtensionFromMimeType ==
    /\ leaf.fn = "getExtensionFromMimeType" /\ leaf.calls = 0
    /\ leaf' = [leaf EXCEPT !.calls = 1, !.out = getExtensionFromMimeType(leaf.arg)]
    /\ UNCHANGED <<worker, variant, settings, vault, run, modal>>

\* sanitizeFilename on the file name, and once more on its own result
CallSanitizeFilename ==
    /\ leaf.fn = "sanitizeFilename" /\ leaf.calls < 2
    /\ LET out == sanitizeFilename(IF leaf.calls = 0 THEN leaf.arg ELSE leaf.out)
       IN  leaf' = [leaf EXCEPT !.calls = @ + 1,
                               !.out = out,
                               !.first = IF leaf.calls = 0 THEN out ELSE @]
    /\ UNCHANGED <<worker, variant, settings, vault, run, modal>>

LeafNext ==
    \/ CallEnsureFileExtension
    \/ CallValidateUrl
    \/ CallFormUrlCheck
    \/ CallValidateFilename
    \/ CallGetExtensionFromMimeType
    \/ CallSanitizeFilename

LeafSpec == LeafInit /\ [][LeafNext]_vars


----------------------------------------------------------------------------
(* Two invocations of downloadFile on one vault, interleaved at their       *)
(* awaits.  Both download https://e.x/f to d/r (d/r.pdf when the answer is  *)
(* a PDF); the file of the first has 1 byte, that of the second             *)
(* MAX_FILE_SIZE bytes.                                                     *)

TwoRunIds == {1, 2}

\* the length of the file each run downloads
TwoBodyLengths == << 1, MAX_FILE_SIZE >>

\* a response one of the two servers gives
TwoResponse(r, response) ==
    \/ response = NoResponse
    \/ /\ response.status \in {200, 304}
       /\ response.contentLength = None
       /\ response.contentType \in {None, TypePdf}
       /\ response.body.len \in {0, TwoBodyLengths[r]}

\* the arguments and answers drawn for run r
TwoInputs(r) ==
    LET rec == run'[r]
    IN  /\ rec.url \in {EmptyString, HttpsUrl}
        /\ rec.targetPath \in {EmptyString, PathDocsReport}
        /\ TwoResponse(r, rec.response)
        /\ TwoResponse(r, rec.freshResponse)
        /\ rec.buffer.len \in {0, TwoBodyLengths[r]}
        /\ rec.error.kind # "NetErr"

TwoInit ==
    /\ variant \in {"main", "part_000"}
    /\ settings = DefaultSettings(variant)
    /\ vault \in { Vault({}, << >>), Vault({FolderD}, << >>) }
    /\ run = [r \in TwoRunIds |-> InitRun]
    /\ modal = NoModal
    /\ leaf = NoLeaf
    /\ worker = NoWorker

TwoNext ==
    \/ \E r \in TwoRunIds : Call(r) /\ TwoInputs(r)
    \/ \E r \in TwoRunIds : FetchReturn(r) /\ TwoInputs(r)
    \/ \E r \in TwoRunIds : FetchThrow(r) /\ TwoInputs(r)
    \/ \E r \in TwoRunIds : FreshFetchReturn(r) /\ TwoInputs(r)
    \/ \E r \in TwoRunIds : ArrayBufferReturn(r) /\ TwoInputs(r)
    \/ \E r \in TwoRunIds : ArrayBufferThrow(r) /\ TwoInputs(r)
    \/ \E r \in TwoRunIds : CreateFolderReturn(r)
    \/ \E r \in TwoRunIds : CreateBinaryReturn(r)
    \/ \E r \in TwoRunIds : CreateBinaryThrow(r)

TwoSpec == TwoInit /\ [][TwoNext]_vars
----------------------------------------------------------------------------
(* downloadFile when every awaited call settles: the request, the retry,    *)
(* arrayBuffer(), createFolder and createBinary each return or throw        *)

\* the await run r is suspended at resolves or rejects
AwaitSettles(r) ==
    \/ FetchReturn(r)
    \/ FetchThrow(r)
    \/ FreshFetchReturn(r)
    \/ ArrayBufferReturn(r)
    \/ ArrayBufferThrow(r)
    \/ CreateFolderReturn(r)
    \/ CreateBinaryReturn(r)
    \/ CreateBinaryThrow(r)

\* a vault with folder d and the file d/r.pdf, the settings as installed
FairInit ==
    /\ variant \in {"main", "part_000"}
    /\ settings = DefaultSettings(variant)
    /\ vault = Vault({FolderD}, [p \in {OldFile} |-> OldBytes])
    /\ run = [r \in RunIds |-> InitRun]
    /\ modal = NoModal
    /\ leaf = NoLeaf
    /\ worker = NoWorker

FairSpec ==
    FairInit /\ [][Next]_vars /\ \A r \in RunIds : WF_vars(AwaitSettles(r))
----------------------------------------------------------------------------
(* The relay worker handling one request: what the client sends and what    *)
(* the upstream server answers are drawn, the handler is the code's         *)

WorkerMethods == { "GET", "POST", "OPTIONS" }

\* the url parameter: missing, empty, not a URL, public hosts, and hosts of
\* the local machine and of private networks
WorkerTargets ==
    { None, EmptyString, NotAUrl,
      HttpsUrl,
      <<"h","t","t","p","s",":","/","/","e",".","x","/","a",".","P","D","F">>,
      <<"h","t","t","p",":","/","/","1",".","1","0",".","0",".","1","/","f">>,
      <<"h","t","t","p",":","/","/","l","o","c","a","l","h","o","s","t","/","f">>,
      <<"h","t","t","p",":","/","/","L","O","C","A","L","H","O","S","T",":","8","0","8","0","/","f">>,
      <<"h","t","t","p",":","/","/","1","2","7",".","0",".","0",".","1","/","f">>,
      <<"h","t","t","p",":","/","/","1","2","7",".","0",".","0",".","2","/","f">>,
      <<"h","t","t","p",":","/","/","[",":",":","1","]","/","f">>,
      <<"h","t","t","p",":","/","/","0",".","0",".","0",".","0","/","f">>,
      <<"h","t","t","p",":","/","/","1","0",".","0",".","0",".","1","/","f">>,
      <<"h","t","t","p",":","/","/","1","9","2",".","1","6","8",".","1",".","1","/","f">>,
      <<"h","t","t","p",":","/","/","1","7","2",".","1","6",".","0",".","1","/","f">>,
      <<"h","t","t","p",":","/","/","1","7","2",".","3","2",".","0",".","1","/","f">> }

\* the headers of the client's request: none, those part_000 sends, those of
\* a browser page with credentials
ClientHeaders ==
    { WorkerHeaders(<< >>),
      WorkerHeaders("accept" :> <<"*","/","*">>
                    @@ "user-agent" :> <<"O","b","s","i","d","i","a","n"," ","R","e","m","o","t","e"," ","F","e","t","c","h"," ","P","l","u","g","i","n">>
                    @@ "cache-control" :> <<"n","o","-","c","a","c","h","e">>
                    @@ "pragma" :> <<"n","o","-","c","a","c","h","e">>),
      WorkerHeaders("accept" :> <<"t","e","x","t","/","h","t","m","l">>
                    @@ "accept-encoding" :> <<"g","z","i","p">>
                    @@ "accept-language" :> <<"e","n">>
                    @@ "referer" :> <<"h","t","t","p","s",":","/","/","o",".","x","/">>
                    @@ "user-agent" :> <<"c","u","r","l","/","8">>
                    @@ "cookie" :> <<"s","i","d","=","1">>
                    @@ "authorization" :> <<"B","e","a","r","e","r"," ","t">>) }

RelayOver == { RELAY_MAX_SIZE + k : k \in 1..MaxOver }

\* the headers an upstream answer has besides content-length and
\* content-type: none, or one of each kind with a cookie, a redirect target
\* and a cross-origin header of its own
UpstreamExtras ==
    { << >>,
      "content-disposition" :> <<"a","t","t","a","c","h","m","e","n","t">>
      @@ "content-encoding" :> <<"g","z","i","p">>
      @@ "last-modified" :> <<"T","u","e",","," ","0","3"," ","N","o","v"," ","2","0","2","6"," ","0","9",":","0","0",":","0","0"," ","G","M","T">>
      @@ "etag" :> <<"\"","1","\"">>
      @@ "cache-control" :> <<"m","a","x","-","a","g","e","=","6","0">>
      @@ "set-cookie" :> <<"s","i","d","=","2">>
      @@ "location" :> <<"h","t","t","p","s",":","/","/","e",".","x","/","g">>
      @@ "access-control-allow-origin" :> <<"h","t","t","p","s",":","/","/","e",".","x">> }

ProxiedResponses ==
    { Proxied(status,
              [WorkerHeaders(extras) EXCEPT !["content-length"] = contentLength,
                                            !["content-type"] = contentType],
              bodyLen) :
        status \in {200, 304, 404, 500},
        contentLength \in { None, ToDigits(RELAY_MAX_SIZE) }
                          \cup { ToDigits(n) : n \in RelayOver },
        contentType \in { None, TypePdf, TypeHtml },
        extras \in UpstreamExtras,
        bodyLen \in { 0, 1, RELAY_MAX_SIZE } \cup RelayOver }

\* the handler up to its first await: an answer, or the upstream request
HandleRequest(idle, method, targetUrl, requestHeaders) ==
    LET got == [idle EXCEPT !.method = method, !.targetUrl = targetUrl,
                            !.headers = requestHeaders]
        early == EarlyAnswer(method, targetUrl)
    IN  IF early # NoAnswer
        THEN [got EXCEPT !.pc = "answered", !.response = early]
        ELSE [got EXCEPT !.pc = "fetching",
                         !.upstream = UpstreamRequest(method, targetUrl, requestHeaders)]

\* a request arrives at the relay
WorkerFetch ==
    /\ worker.pc = "none"
    /\ \E method \in WorkerMethods, targetUrl \in WorkerTargets,
          requestHeaders \in ClientHeaders :
         worker' = HandleRequest(worker, method, targetUrl, requestHeaders)
    /\ UNCHANGED <<variant, settings, vault, run, modal, leaf>>

\* the upstream fetch resolves
UpstreamFetchReturn ==
    /\ worker.pc = "fetching"
    /\ \E proxiedResponse \in ProxiedResponses :
         worker' = [worker EXCEPT
                       !.pc = "answered",
                       !.proxied = proxiedResponse,
                       !.response = ForwardedAnswer(worker.targetUrl, proxiedResponse)]
    /\ UNCHANGED <<variant, settings, vault, run, modal, leaf>>

\* the upstream fetch rejects, or the 30 s timer aborts it
UpstreamFetchThrow ==
    /\ worker.pc = "fetching"
    /\ \E err \in UpstreamErrors :
         worker' = [worker EXCEPT !.pc = "answered", !.response = ErrorAnswer(err)]
    /\ UNCHANGED <<variant, settings, vault, run, modal, leaf>>

WorkerInit ==
    /\ variant = "part_000"
    /\ settings = DefaultSettings(variant)
    /\ vault = RelayVault
    /\ run = [r \in RunIds |-> InitRun]
    /\ modal = NoModal
    /\ leaf = NoLeaf
    /\ worker = NoWorker

WorkerNext ==
    \/ WorkerFetch
    \/ UpstreamFetchReturn
    \/ UpstreamFetchThrow

WorkerSpec == WorkerInit /\ [][WorkerNext]_vars
----------------------------------------------------------------------------
(* Vocabulary of the properties *)

Has(log, ev) == \E i \in 1..Len(log) : log[i] = ev
Before(log, a, b) ==
    \E i \in 1..Len(log), j \in 1..Len(log) : i < j /\ log[i] = a /\ log[j] = b
Count(log, ev) == Cardinality({ i \in 1..Len(log) : log[i] = ev })

NoVaultCall(rec) == ~Has(rec.log, "createFolder") /\ ~Has(rec.log, "createBinary")
HasNotice(rec, type) == \E i \in 1..Len(rec.notices) : rec.notices[i].type = type
Ended(rec) == rec.pc \in {"done", "failed"}
LastNotice(rec) == rec.notices[Len(rec.notices)]

BadUrls == { FtpUrl, NotAUrl }
BlockedPaths == { PathExe, PathUpperExe }
Is2xx(status) == status \in 200..299

\* the declared content types that are on the allowlist and are not HTML
AllowedFileTypes == { TypePdf, TypePlainCharset, TypeUpperPng }
DeclaredWithinCeiling == { None, ToDigits(MAX_FILE_SIZE) }

----------------------------------------------------------------------------
(* C1: a call of downloadFile whose URL is not an http(s) URL, or whose      *)
(* target path ends in a file name with a blocked extension, ends in        *)
(* failure with no request issued and no vault call made.                   *)
C1_CheapRejection ==
    \A r \in DOMAIN run :
        (run[r].pc # "idle"
         /\ (run[r].url \in BadUrls \/ run[r].targetPath \in BlockedPaths))
        => /\ run[r].pc = "failed"
           /\ run[r].requests = <<>>
           /\ NoVaultCall(run[r])
           /\ vault = run[r].vaultAtCall

\* a valid URL with a blocked file name (upper-case extension) was rejected
C1_Witness ==
    \E r \in DOMAIN run :
        /\ run[r].pc = "failed"
        /\ run[r].url = HttpsUrl
        /\ run[r].targetPath = PathUpperExe
        /\ run[r].error.kind = "FileTypeNotAllowed"

----------------------------------------------------------------------------
(* C2 *)

\* the body the run received: requestUrl delivers it with the response,
\* fetch when arrayBuffer() resolves (NoBody until then)
ReceivedBody(rec) == IF variant = "main" THEN rec.response.body ELSE rec.buffer

\* the response whose body is to be written answered 200 with an allowed,
\* non-HTML content type and a body of 1..MAX_FILE_SIZE bytes, for a valid
\* request, with no file at the final path when the run began
C2_Case(rec) ==
    /\ Ended(rec)
    /\ rec.url = HttpsUrl /\ rec.targetPath \notin BlockedPaths
    /\ rec.response.status = 200
    /\ rec.response.contentType \in AllowedFileTypes
    /\ ReceivedBody(rec).of = 1
    /\ ReceivedBody(rec).len >= 1 /\ ReceivedBody(rec).len <= MAX_FILE_SIZE
    /\ ~Exists(rec.vaultAtCall, ensureFileExtension(rec.targetPath,
                                                    rec.response.contentType))

\* the run succeeded and the vault gained exactly the one file, holding the
\* response's bytes
C2_Outcome(rec) ==
    /\ rec.pc = "done"
    /\ DOMAIN vault.files = DOMAIN rec.vaultAtCall.files \cup {rec.finalPath}
    /\ rec.finalPath \notin DOMAIN rec.vaultAtCall.files
    /\ \A p \in DOMAIN rec.vaultAtCall.files : vault.files[p] = rec.vaultAtCall.files[p]
    /\ vault.files[rec.finalPath] = ReceivedBody(rec)
    /\ (rec.targetPath = PathDocsReport /\ rec.response.contentType = TypePdf)
       => rec.finalPath = OldFile

(* C2 as stated: such a response always ends the run in success with the    *)
(* one file written.                                                        *)
C2_AsStated == \A r \in DOMAIN run : C2_Case(run[r]) => C2_Outcome(run[r])

(* C2, amended: for a valid request answered 200 with an allowed, non-HTML  *)
(* content type, a declared content-length (if any) not above 20 MiB and a  *)
(* body of 1 byte to 20 MiB, with no file at the final path, the run ends   *)
(* in success unless createBinary rejects, and on success the vault has     *)
(* gained exactly one file, at finalPath, holding the response bytes        *)
(* ("d/r" with application/pdf gives "d/r.pdf").                            *)
C2_DirectSuccess ==
    \A r \in DOMAIN run :
        (C2_Case(run[r])
         /\ run[r].response.contentLength \in DeclaredWithinCeiling
         /\ run[r].error.kind \notin {"WriteError", "NoMessage"})
        => C2_Outcome(run[r])

\* scenario A: d/r, application/pdf, a body of exactly 20 MiB, written
C2_Witness ==
    \E r \in DOMAIN run :
        /\ C2_Case(run[r])
        /\ run[r].pc = "done"
        /\ run[r].targetPath = PathDocsReport
        /\ run[r].response.contentType = TypePdf
        /\ run[r].buffer.len = MAX_FILE_SIZE
        /\ OldFile \in DOMAIN vault.files

----------------------------------------------------------------------------
(* C3: a first response whose status is neither 2xx nor 304, and a retry    *)
(* response whose status is not 2xx (304 included), end the run in failure  *)
(* with the HTTP error carrying that status shown in the notice, no vault   *)
(* call made and the vault as it was.                                       *)
C3_HttpErrorIsTerminal ==
    \A r \in DOMAIN run :
        /\ (run[r].response.status # 0
            /\ ~Is2xx(run[r].response.status) /\ run[r].response.status # 304)
           => /\ run[r].pc = "failed"
              /\ run[r].error = Err("HttpError", run[r].response.status, 0)
        /\ (run[r].freshResponse.status # 0 /\ ~Is2xx(run[r].freshResponse.status))
           => /\ run[r].pc = "failed"
              /\ run[r].error = Err("HttpErrorRetry", run[r].freshResponse.status, 0)
        /\ run[r].error.kind \in {"HttpError", "HttpErrorRetry"}
           => /\ LastNotice(run[r]) = Notice("failed", "message", run[r].error, <<>>)
              /\ NoVaultCall(run[r])
              /\ vault = run[r].vaultAtCall

\* the retry was answered 304 again and the run failed on it
C3_Witness ==
    \E r \in DOMAIN run :
        /\ run[r].response.status = 304
        /\ run[r].freshResponse.status = 304
        /\ run[r].pc = "failed"
        /\ run[r].error = Err("HttpErrorRetry", 304, 0)

----------------------------------------------------------------------------
(* C4, as stated: the request is reissued exactly when the first response   *)
(* has status 304, then once and with the hardened anti-cache headers; a    *)
(* run issues one request, or two when the first status is 304.             *)
Hardened(headers) ==
    /\ headers["Cache-Control"] = "no-cache, no-store, must-revalidate"
    /\ headers["Pragma"] = "no-cache"
    /\ headers["Expires"] = "0"
    /\ headers["If-None-Match"] = ""
    /\ headers["If-Modified-Since"] = ""

C4_RetryExactlyOn304 ==
    \A r \in DOMAIN run :
        /\ Len(run[r].requests) <= 2
        /\ run[r].response.status # 0
           => Len(run[r].requests) = (IF run[r].response.status = 304 THEN 2 ELSE 1)
        /\ Len(run[r].requests) = 2
           => /\ run[r].requests[2].url = run[r].requests[1].url
              /\ Hardened(run[r].requests[2].headers)

----------------------------------------------------------------------------
(* C5 *)

\* the body the retry response delivered
C5_Case(rec) ==
    /\ Ended(rec)
    /\ rec.response.status = 304
    /\ Is2xx(rec.freshResponse.status)
    /\ rec.freshResponse.contentType \in ContentTypes \ {TypeMsDownload}
    /\ Has(rec.log, "readBody")
    /\ rec.buffer.len >= 1 /\ rec.buffer.len <= MAX_FILE_SIZE

C5_Outcome(rec) ==
    /\ rec.pc = "done"
    /\ rec.finalPath \in DOMAIN vault.files
    /\ vault.files[rec.finalPath] = Body(2, rec.buffer.len)

(* C5 as stated: a 304 followed by a 2xx retry with an allowed content type *)
(* and a body of 1 byte to 20 MiB always ends in success with the retry's   *)
(* bytes written.                                                           *)
C5_AsStated == \A r \in DOMAIN run : C5_Case(run[r]) => C5_Outcome(run[r])

(* C5, amended: when the first response has status 304 and the retry        *)
(* response is 2xx, declares no content-length above the ceiling, has an    *)
(* allowed content type and a body of 1 byte to 20 MiB, the run ends in     *)
(* success unless createBinary rejects (the final path is taken, or a write *)
(* error); a file written after a retry holds exactly the bytes of the      *)
(* retry response, never those of the 304 response.                         *)
C5_RetryBodyWritten ==
    \A r \in DOMAIN run :
        /\ (C5_Case(run[r])
            /\ run[r].freshResponse.contentLength \in DeclaredWithinCeiling
            /\ run[r].error.kind \notin {"AlreadyExists", "WriteError"})
           => C5_Outcome(run[r])
        /\ (run[r].response.status = 304 /\ Has(run[r].log, "written"))
           => vault.files[run[r].finalPath].of = 2

\* scenario C: 304, then 200 with a body, written under d/r.pdf
C5_Witness ==
    \E r \in DOMAIN run :
        /\ C5_Case(run[r])
        /\ run[r].pc = "done"
        /\ run[r].freshResponse.status = 200
        /\ run[r].freshResponse.contentType = TypePdf
        /\ run[r].finalPath = OldFile
        /\ vault.files[OldFile] = Body(2, 1)

----------------------------------------------------------------------------
(* C6: a response (first or retry) that declares more than 20 MiB ends the  *)
(* run in failure before the body is read and with no vault call; when it   *)
(* reaches the declared-size check (its status was accepted) the failure is *)
(* the too-large error.  A declared length of exactly 20 MiB passes: a      *)
(* too-large failure before the body is read comes only from a declared     *)
(* length above 20 MiB.                                                     *)
DeclaredOver == { ToDigits(n) : n \in Over }

\* the first response got past the status check of its snapshot
FirstStatusAccepted(rec) ==
    IF variant = "main" THEN rec.response.status = 200
    ELSE Is2xx(rec.response.status) \/ rec.response.status = 304

\* the response received last
LastResponse(rec) ==
    IF rec.freshResponse.status # 0 THEN rec.freshResponse ELSE rec.response

TooLargeBeforeBody(rec) ==
    /\ rec.pc = "failed"
    /\ rec.error.kind = "TooLarge"
    /\ LastNotice(rec) = Notice("failed", "message", rec.error, <<>>)
    /\ ~Has(rec.log, "readBody")
    /\ NoVaultCall(rec)
    /\ vault = rec.vaultAtCall

FailedUnread(rec) ==
    /\ rec.pc = "failed"
    /\ ~Has(rec.log, "readBody")
    /\ NoVaultCall(rec)
    /\ vault = rec.vaultAtCall

----------------------------------------------------------------------------
(* C7: every buffer handed to createBinary has 1 to 20 MiB bytes, with or   *)
(* without a retry and whatever content-length was declared; an empty body  *)
(* and a body above the ceiling each fail the run with no vault call.       *)
C7_BufferWithinBounds ==
    \A r \in DOMAIN run :
        /\ Has(run[r].log, "createBinary")
           => /\ BinaryData(run[r]).len >= 1
              /\ BinaryData(run[r]).len <= MAX_FILE_SIZE
        /\ (Has(run[r].log, "readBody")
            /\ (run[r].buffer.len = 0 \/ run[r].buffer.len > MAX_FILE_SIZE))
           => /\ run[r].pc = "failed"
              /\ run[r].error.kind \in {"Empty", "EmptyRetry", "TooLarge"}
              /\ NoVaultCall(run[r])
              /\ vault = run[r].vaultAtCall

\* after a retry whose response declared no content-length, a body above the
\* ceiling was read and the run failed on it
C7_Witness ==
    \E r \in DOMAIN run :
        /\ run[r].response.status = 304
        /\ run[r].freshResponse.contentLength = None
        /\ run[r].buffer.len > MAX_FILE_SIZE
        /\ run[r].pc = "failed"
        /\ run[r].error.kind = "TooLarge"

----------------------------------------------------------------------------
(* C8, as stated: when the response whose body would be written (the first  *)
(* response, or the retry response after a 304) has passed the status and   *)
(* declared-size checks and declares a content type containing text/html,   *)
(* the run makes no vault call and never succeeds, and it fails on that     *)
(* response with the 'Server returned HTML' error.                          *)
HtmlTypes == { TypeHtml, TypeHtmlCharset }

\* the response to be written is HTML and got as far as the content checks
HtmlCase(rec) ==
    /\ LastResponse(rec).contentType \in HtmlTypes
    /\ LastResponse(rec).contentLength \in DeclaredWithinCeiling
    /\ IF rec.freshResponse.status # 0 THEN Is2xx(rec.freshResponse.status)
       ELSE FirstStatusAccepted(rec) /\ rec.response.status # 304

C8_HtmlAlwaysRejected ==
    \A r \in DOMAIN run :
        HtmlCase(run[r])
        => /\ NoVaultCall(run[r])
           /\ run[r].pc # "done"
           /\ (run[r].pc = "failed" /\ ~Has(run[r].log, "readBody")
               /\ run[r].error \notin TransportErrors)
              => run[r].error.kind = "Html"

----------------------------------------------------------------------------
(* C9: a response whose content type contains no allowlist entry ends the   *)
(* run in failure before the body is read and with no vault call; when it   *)
(* reaches the content-type check (status and declared size accepted) the   *)
(* failure is 'Content type not allowed'.  The check lets through an absent *)
(* content type and one whose lower-cased text contains an allowlist entry. *)
OnAllowlist == { TypePdf, TypePlainCharset, TypeUpperPng, TypeHtml, TypeHtmlCharset }
OffAllowlist == { TypeMsDownload }

ContentTypeRejected(rec) ==
    /\ rec.pc = "failed"
    /\ rec.error = Err("ContentTypeNotAllowed", 0, 0)
    /\ LastNotice(rec) = Notice("failed", "message", rec.error, <<>>)
    /\ ~Has(rec.log, "readBody")
    /\ NoVaultCall(rec)
    /\ vault = rec.vaultAtCall

ReachedTypeCheck(rec) ==
    IF rec.freshResponse.status # 0
    THEN Is2xx(rec.freshResponse.status)
         /\ rec.freshResponse.contentLength \in DeclaredWithinCeiling
    ELSE FirstStatusAccepted(rec)
         /\ rec.response.contentLength \in DeclaredWithinCeiling

C9_ContentTypeGate ==
    \A r \in DOMAIN run :
      /\ LastResponse(run[r]).contentType \in OffAllowlist
         => FailedUnread(run[r])
      /\ ReachedTypeCheck(run[r])
        => /\ LastResponse(run[r]).contentType \in OffAllowlist
              => ContentTypeRejected(run[r])
           /\ LastResponse(run[r]).contentType \in OnAllowlist \cup {None}
              => run[r].error.kind # "ContentTypeNotAllowed"

\* IMAGE/PNG got through the check and its body was written
C9_Witness ==
    \E r \in DOMAIN run :
        /\ LastResponse(run[r]).contentType = TypeUpperPng
        /\ run[r].pc = "done"

----------------------------------------------------------------------------
(* C10: the success notice is shown only after createFolder has been called *)
(* (whenever finalPath has a folder part) and createBinary at finalPath has *)
(* then completed, in that order; a run whose createBinary rejects never    *)
(* shows it.                                                                *)
C10_SuccessAfterWrite ==
    \A r \in DOMAIN run :
        /\ HasNotice(run[r], "success")
           => /\ run[r].pc = "done"
              /\ Before(run[r].log, "createBinary", "written")
              /\ Before(run[r].log, "written", "success")
              /\ includes(run[r].finalPath, <<"/">>)
                 => Before(run[r].log, "createFolder", "createBinary")
              /\ run[r].finalPath \in DOMAIN vault.files
              /\ vault.files[run[r].finalPath] = run[r].buffer
              /\ LastNotice(run[r]) = Notice("success", "", NoError, run[r].finalPath)
        /\ run[r].error.kind \in {"AlreadyExists", "WriteError"}
           => ~HasNotice(run[r], "success") /\ run[r].pc = "failed"

\* a success into folder d, which createFolder had to make first
C10_Witness ==
    \E r \in DOMAIN run :
        /\ HasNotice(run[r], "success")
        /\ run[r].finalPath = OldFile
        /\ FolderD \notin run[r].vaultAtCall.folders
        /\ FolderD \in vault.folders

----------------------------------------------------------------------------
(* C11, as stated: a run of downloadFile that ends in failure leaves the    *)
(* vault exactly as it was when the run began, no folder and no file        *)
(* created, also when the failure comes from createBinary after             *)
(* createFolder has run.                                                    *)
C11_VaultUntouchedOnFailure ==
    \A r \in DOMAIN run :
        run[r].pc = "failed"
        => /\ vault.folders = run[r].vaultAtCall.folders
           /\ vault.files = run[r].vaultAtCall.files

----------------------------------------------------------------------------
(* C12, as stated: downloadFile never rejects; every exception raised by    *)
(* validation, by the network request or by a vault call is caught inside   *)
(* downloadFile and gives exactly one 'Download failed' notice, and a run   *)
(* that is over has shown either that notice or the success notice, never   *)
(* both and never neither.                                                  *)
FailureNotices(rec) == { i \in 1..Len(rec.notices) : rec.notices[i].type = "failed" }
SuccessNotices(rec) == { i \in 1..Len(rec.notices) : rec.notices[i].type = "success" }

\* the promise of downloadFile has settled
Settled(rec) == rec.pc \in {"done", "failed", "rejected"}

C12_NeverRejects ==
    \A r \in DOMAIN run :
        /\ run[r].pc # "rejected"
        /\ Cardinality(FailureNotices(run[r])) + Cardinality(SuccessNotices(run[r])) <= 1
        /\ Settled(run[r])
           => Cardinality(FailureNotices(run[r]))
              + Cardinality(SuccessNotices(run[r])) = 1
        /\ run[r].error # NoError => Cardinality(FailureNotices(run[r])) = 1

----------------------------------------------------------------------------
(* C13: ensureFileExtension returns the path unchanged when the path has an *)
(* extension (a "." after its last "/"), when no content type was declared  *)
(* (null or empty), or when the content type resolves to "bin"; otherwise   *)
(* it returns the path followed by one "." and the resolved extension.  An  *)
(* existing extension is never replaced or doubled.                         *)
PathsWithExtension == { PathReportPdf, OldFile, PathTrailingDot, PathDotR, PathUpperExe }
PathsWithoutExtension == { PathR, PathDocsReport, PathDottedFolder }
TypesResolvingToBin == { TypePlainCharset, TypeUpperPng, TypeOctetStream }

ExpectedSuffix(contentType) ==
    CASE contentType = TypePdf -> <<".","p","d","f">>
      [] contentType = TypePng -> <<".","p","n","g">>
      [] contentType = TypeJpeg -> <<".","j","p","g">>

C13_FinalPath ==
    (leaf.fn = "ensureFileExtension" /\ leaf.calls = 1)
    => IF \/ leaf.arg \in PathsWithExtension
          \/ leaf.contentType \in { None, EmptyString }
          \/ leaf.contentType \in TypesResolvingToBin
       THEN leaf.out = leaf.arg
       ELSE /\ leaf.arg \in PathsWithoutExtension
            /\ leaf.out = leaf.arg \o ExpectedSuffix(leaf.contentType)

\* a path whose folder has a dot and whose file name has none gets the
\* extension of image/jpeg appended
C13_Witness ==
    /\ leaf.fn = "ensureFileExtension" /\ leaf.calls = 1
    /\ leaf.arg = PathDottedFolder
    /\ leaf.contentType = TypeJpeg
    /\ leaf.out = <<"d",".","x","/","r",".","j","p","g">>

----------------------------------------------------------------------------
(* C14: no run replaces the content of a file that is already in the vault. *)
(* When the form is submitted for a target path at which a file exists,     *)
(* handleDownload returns without calling downloadFile (no request), and    *)
(* when the form's own earlier checks pass the notice it shows is 'File     *)
(* already exists at this location'.  When a file exists at the final path  *)
(* the pipeline computes (d/r with application/pdf gives d/r.pdf) the run   *)
(* does not end in success.  Every file of the vault at submit time is      *)
(* still there with the same bytes.                                         *)
SubmittedOnExistingFile ==
    /\ modal.pc \notin {"none", "open"}
    /\ modal.folder = FolderD
    /\ modal.filename = PathReportPdf
    /\ OldFile \in DOMAIN modal.vaultAtSubmit.files

C14_NoOverwrite ==
    /\ SubmittedOnExistingFile
       => /\ modal.pc = "returned"
          /\ \A r \in DOMAIN run : run[r].pc = "idle" /\ run[r].requests = <<>>
          /\ modal.url = HttpsUrlSpaced
             => modal.notices = << "File already exists at this location" >>
    /\ \A r \in DOMAIN run :
          run[r].finalPath \in DOMAIN run[r].vaultAtCall.files
          => /\ run[r].pc # "done"
             /\ ~HasNotice(run[r], "success")
    /\ \A p \in DOMAIN modal.vaultAtSubmit.files :
          /\ p \in DOMAIN vault.files
          /\ vault.files[p] = modal.vaultAtSubmit.files[p]

\* the form named d and r, the server declared application/pdf, and the run
\* failed at createBinary on the existing d/r.pdf, which is as it was
C14_Witness ==
    /\ modal.folder = FolderD /\ modal.filename = NameR
    /\ \E r \in DOMAIN run :
          /\ run[r].finalPath = OldFile
          /\ run[r].pc = "failed"
          /\ run[r].error.kind = "AlreadyExists"
    /\ vault.files[OldFile] = OldBytes

\* the form named the existing d/r.pdf and was turned down
C14_WitnessPreflight ==
    /\ SubmittedOnExistingFile
    /\ modal.notices = << "File already exists at this location" >>

----------------------------------------------------------------------------
(* C15: validateUrl returns true exactly for the texts that parse as an     *)
(* absolute URL with scheme http or https; for every other scheme (ftp,     *)
(* file, javascript, mailto) and for every text that does not parse it      *)
(* returns false, a boolean and never an exception.  The URL check of       *)
(* handleDownload accepts the same texts.                                   *)
C15_UrlValidator ==
    (leaf.fn \in {"validateUrl", "formUrlCheck"} /\ leaf.calls = 1)
    => /\ leaf.ok \in BOOLEAN
       /\ leaf.ok <=> leaf.arg \in UrlTextsHttp

\* an upper-case scheme was accepted by validateUrl
C15_Witness ==
    /\ leaf.fn = "validateUrl" /\ leaf.calls = 1
    /\ leaf.arg = <<"H","T","T","P",":","/","/","e",".","x">>
    /\ leaf.ok

\* the same pipeline-level agreement: a run the form let through never fails
\* the URL check of downloadFile
C15_FormAgrees ==
    \A r \in DOMAIN run :
        modal.pc \notin {"none", "open", "returned"} => run[r].error.kind # "OnlyHttp"

----------------------------------------------------------------------------
(* C16, as stated: validateFilename rejects a file name exactly when the    *)
(* text from its last "." to its end, lower-cased, is one of the 14         *)
(* blocklist entries (S.EXE is rejected), and accepts every file name that  *)
(* has no "." at all, a bare "exe" included.                                *)
HasDot(filename) == lastIndexOf(filename, ".") >= 0
TrailingExtension(filename) == substringFrom(filename, lastIndexOf(filename, "."))

C16_FilenameValidator ==
    (leaf.fn = "validateFilename" /\ leaf.calls = 1)
    => /\ ~leaf.ok <=> /\ HasDot(leaf.arg)
                       /\ toLowerCase(TrailingExtension(leaf.arg)) \in BLOCKED_EXTENSIONS
       /\ ~HasDot(leaf.arg) => leaf.ok
       /\ Cardinality(BLOCKED_EXTENSIONS) = 14

----------------------------------------------------------------------------
(* C17, as stated: getExtensionFromMimeType is total: for each of the 17    *)
(* names of its table it returns the table's extension (image/png gives     *)
(* png, application/pdf gives pdf), and for every other string it returns   *)
(* the string "bin" and nothing else.                                       *)
TableExtension(mimeType) ==
    mimeMap[CHOOSE i \in 1..Len(mimeMap) : mimeMap[i][1] = mimeType][2]

C17_ExtensionResolverTotal ==
    (leaf.fn = "getExtensionFromMimeType" /\ leaf.calls = 1)
    => /\ Cardinality(MimeTableKeys) = 17
       /\ leaf.arg \in MimeTableKeys => leaf.out = TableExtension(leaf.arg)
       /\ leaf.arg = TypePng => leaf.out = <<"p","n","g">>
       /\ leaf.arg = TypePdf => leaf.out = <<"p","d","f">>
       /\ leaf.arg \notin MimeTableKeys => leaf.out = Bin

----------------------------------------------------------------------------
(* C18: sanitizeFilename replaces every occurrence of the nine characters   *)
(* \ / : * ? " < > | by "_" and leaves every other character and the        *)
(* length as they were; its result has none of the nine, and sanitizing     *)
(* the result again gives the same result.                                  *)
NineCharacters == { "\\", "/", ":", "*", "?", "\"", "<", ">", "|" }

C18_Sanitizer ==
    (leaf.fn = "sanitizeFilename" /\ leaf.calls >= 1)
    => /\ Cardinality(NineCharacters) = 9
       /\ Len(leaf.first) = Len(leaf.arg)
       /\ \A i \in 1..Len(leaf.arg) :
             leaf.first[i] = IF leaf.arg[i] \in NineCharacters THEN "_"
                             ELSE leaf.arg[i]
       /\ \A i \in 1..Len(leaf.first) : leaf.first[i] \notin NineCharacters
       /\ leaf.calls = 2 => leaf.out = leaf.first

\* a name with two of the nine characters, sanitized twice
C18_Witness ==
    /\ leaf.fn = "sanitizeFilename" /\ leaf.calls = 2
    /\ leaf.arg = << "a", "/", "|" >>
    /\ leaf.out = << "a", "_", "_" >>

----------------------------------------------------------------------------
(* C19, as stated: every target path handleDownload builds from the folder  *)
(* field and the sanitized file name and passes to downloadFile has no      *)
(* path-traversal segment (".."), whatever was typed in the two fields.     *)
IsSegment(path, first, last) ==
    /\ first <= last
    /\ first = 1 \/ path[first - 1] = "/"
    /\ last = Len(path) \/ path[last + 1] = "/"
    /\ \A i \in first..last : path[i] # "/"

HasTraversalSegment(path) ==
    \E first \in 1..Len(path) :
        /\ first + 1 <= Len(path)
        /\ IsSegment(path, first, first + 1)
        /\ path[first] = "." /\ path[first + 1] = "."

C19_NoTraversal ==
    \A r \in DOMAIN run :
        (modal.pc = "downloading" /\ run[r].pc # "idle")
        => ~HasTraversalSegment(run[r].targetPath)

----------------------------------------------------------------------------
(* C20: in relay mode every request of a run, the 304 retry included, goes  *)
(* to the relay URL that was configured when downloadFile was called,       *)
(* followed by the percent-encoded source URL, and never to the source URL  *)
(* itself; a change of the relay flag or relay URL made while the run       *)
(* waits for the first answer does not change where the retry is sent.      *)
EncodedHttpsUrl ==
    <<"h","t","t","p","s","%","3","A","%","2","F","%","2","F","e",".","x","%","2","F","f">>

C20_RelayAddress ==
    \A r \in DOMAIN run :
        (run[r].pc # "idle" /\ run[r].settingsAtCall.enableCorsProxy)
        => \A i \in 1..Len(run[r].requests) :
              /\ run[r].requests[i].url
                    = run[r].settingsAtCall.corsProxyUrl \o EncodedHttpsUrl
              /\ run[r].requests[i].url # run[r].url

\* the relay was switched off and pointed elsewhere before the 304 arrived,
\* and the retry went to the relay of the first request
C20_Witness ==
    \E r \in DOMAIN run :
        /\ run[r].settingsAtCall = [enableCorsProxy |-> TRUE, corsProxyUrl |-> RelayUrl]
        /\ run[r].settingsAtRetry = [enableCorsProxy |-> FALSE, corsProxyUrl |-> OtherRelayUrl]
        /\ Len(run[r].requests) = 2
        /\ run[r].requests[2].url = RelayUrl \o EncodedHttpsUrl


----------------------------------------------------------------------------
(* C21, as stated: in direct mode (relay disabled or absent) the first      *)
(* request of every run goes to the source URL itself and carries           *)
(* Cache-Control: no-cache, Pragma: no-cache and the plugin's user-agent.   *)
DirectMode(rec) == ~rec.settingsAtCall.enableCorsProxy

C21_DirectHeaders ==
    \A r \in RunIds :
        (Len(run[r].requests) >= 1 /\ DirectMode(run[r])) =>
            /\ run[r].requests[1].url = run[r].url
            /\ run[r].requests[1].headers["Cache-Control"] = "no-cache"
            /\ run[r].requests[1].headers["Pragma"] = "no-cache"
            /\ run[r].requests[1].headers["User-Agent"] = "Obsidian Remote Fetch Plugin"

\* the same for the requestUrl call of src/main.ts alone
C21_DirectHeadersMain ==
    variant = "main" => C21_DirectHeaders


----------------------------------------------------------------------------
(* C22, as stated: for every non-OPTIONS request whose url parameter names  *)
(* localhost, a loopback address or an address of 10/8, 172.16/12 or        *)
(* 192.168/16, the relay answers 403 and issues no upstream fetch.          *)
PrivateTargets ==
    { <<"h","t","t","p",":","/","/","l","o","c","a","l","h","o","s","t","/","f">>,
      <<"h","t","t","p",":","/","/","L","O","C","A","L","H","O","S","T",":","8","0","8","0","/","f">>,
      <<"h","t","t","p",":","/","/","1","2","7",".","0",".","0",".","1","/","f">>,
      <<"h","t","t","p",":","/","/","1","2","7",".","0",".","0",".","2","/","f">>,
      <<"h","t","t","p",":","/","/","[",":",":","1","]","/","f">>,
      <<"h","t","t","p",":","/","/","1","0",".","0",".","0",".","1","/","f">>,
      <<"h","t","t","p",":","/","/","1","9","2",".","1","6","8",".","1",".","1","/","f">>,
      <<"h","t","t","p",":","/","/","1","7","2",".","1","6",".","0",".","1","/","f">> }

Refused(w) ==
    w.pc = "answered" /\ w.response.status = 403 /\ w.upstream = NoUpstream

C22_PrivateHostsRefused ==
    (worker.pc # "none" /\ worker.method # "OPTIONS"
     /\ worker.targetUrl \in PrivateTargets) => Refused(worker)

\* the same for the hosts the handler compares with: localhost, 127.0.0.1
\* and the three dotted prefixes
C22_ListedHostsRefused ==
    (worker.pc # "none" /\ worker.method # "OPTIONS"
     /\ worker.targetUrl \in PrivateTargets
                             \ { <<"h","t","t","p",":","/","/","1","2","7",".","0",".","0",".","2","/","f">>, <<"h","t","t","p",":","/","/","[",":",":","1","]","/","f">> })
        => Refused(worker)


----------------------------------------------------------------------------
(* C23: every response the relay returns carries                            *)
(* Access-Control-Allow-Origin: *, on every path of the handler: the        *)
(* OPTIONS answer, the 400, 403 and 413 rejections, the forwarded upstream  *)
(* response whatever its status (and whatever cross-origin header the       *)
(* upstream sent), and the 502 and 504 error answers.                       *)
C23_CorsOnEveryAnswer ==
    worker.pc = "answered" =>
        worker.response.headers["access-control-allow-origin"] = Star

\* a forwarded 404 of an upstream that sent a cross-origin header of its own
C23_Witness ==
    /\ worker.pc = "answered"
    /\ worker.proxied.status = 404
    /\ worker.response.status = 404
    /\ worker.proxied.headers["access-control-allow-origin"] = <<"h","t","t","p","s",":","/","/","e",".","x">>
    /\ worker.response.headers["access-control-allow-origin"] = Star

\* each kind of answer is returned in some run of the handler
C23_WitnessStatuses(status) ==
    worker.pc = "answered" /\ worker.response.status = status
C23_Witness200 == C23_WitnessStatuses(200) /\ worker.method = "OPTIONS"
C23_Witness400 == C23_WitnessStatuses(400)
C23_Witness403 == C23_WitnessStatuses(403)
C23_Witness413 == C23_WitnessStatuses(413)
C23_Witness502 == C23_WitnessStatuses(502) /\ worker.proxied = NoProxied
C23_Witness504 == C23_WitnessStatuses(504)


----------------------------------------------------------------------------
(* C24, as stated: the relay limits forwarded files to 50 MiB: when the     *)
(* upstream response declares a content-length above 50 MiB the relay       *)
(* answers 413 and forwards none of the upstream body, and no response body *)
(* larger than 50 MiB is ever forwarded to the client.                      *)
DeclaredOverRelayMax(proxiedResponse) ==
    proxiedResponse.headers["content-length"] \in { ToDigits(n) : n \in RelayOver }

C24_RelayCap ==
    worker.pc = "answered" =>
        /\ worker.response.forwarded <= RELAY_MAX_SIZE
        /\ DeclaredOverRelayMax(worker.proxied) =>
               worker.response.status = 413 /\ worker.response.forwarded = 0

\* the part about the declared length alone
C24_DeclaredCap ==
    (worker.pc = "answered" /\ DeclaredOverRelayMax(worker.proxied)) =>
        worker.response.status = 413 /\ worker.response.forwarded = 0


----------------------------------------------------------------------------
(* C25: the relay's upstream request carries, of the client's headers, only *)
(* accept, accept-encoding, accept-language, cache-control and referer,     *)
(* each with the client's value, plus the relay's fixed user-agent; the     *)
(* response it returns carries, of the upstream headers, only content-type, *)
(* content-length, content-disposition, content-encoding, last-modified,    *)
(* etag and cache-control.  No cookie or authorization header reaches the   *)
(* upstream and no set-cookie header reaches the client.                    *)
SafeRequestHeaders ==
    { "accept", "accept-encoding", "accept-language", "cache-control", "referer" }
SafeResponseHeaders ==
    { "content-type", "content-length", "content-disposition",
      "content-encoding", "last-modified", "etag", "cache-control" }
RelayOwnResponseHeaders ==
    { "access-control-allow-origin", "access-control-allow-methods",
      "access-control-allow-headers", "access-control-max-age",
      "access-control-expose-headers", "content-type" }

C25_HeaderAllowlists ==
    /\ worker.upstream # NoUpstream =>
         \A h \in WorkerHeaderNames :
            LET sent == worker.upstream.headers[h]
            IN  /\ h = "user-agent" => sent = RelayUserAgent
                /\ h \in SafeRequestHeaders => sent = worker.headers[h]
                /\ h \notin SafeRequestHeaders \cup {"user-agent"} => sent = None
    /\ worker.pc = "answered" =>
         \A h \in WorkerHeaderNames :
            LET returned == worker.response.headers[h]
            IN  /\ h \notin SafeResponseHeaders \cup RelayOwnResponseHeaders
                     => returned = None
                /\ (h \in SafeResponseHeaders /\ returned # None
                    /\ h \notin RelayOwnResponseHeaders)
                     => returned = worker.proxied.headers[h]
                /\ (h \in RelayOwnResponseHeaders \ SafeResponseHeaders
                    /\ returned # None)
                     => returned \in { Star, AllMethods, <<"8","6","4","0","0">> }

\* a browser's request with cookie and authorization has been sent on, and
\* an upstream answer with set-cookie and location has been returned
C25_Witness ==
    /\ worker.pc = "answered"
    /\ worker.headers["cookie"] # None
    /\ worker.headers["authorization"] # None
    /\ worker.headers["referer"] # None
    /\ worker.upstream.headers["referer"] = worker.headers["referer"]
    /\ worker.proxied.headers["set-cookie"] # None
    /\ worker.proxied.headers["etag"] # None
    /\ worker.response.headers["etag"] = worker.proxied.headers["etag"]
    /\ worker.response.status = 200


----------------------------------------------------------------------------
(* C26, as stated: the file name of every path passed to createBinary has   *)
(* no extension from the blocklist, for every content type that passes the  *)
(* content-type gate: the name is validated before the request and the only *)
(* change made afterwards is appending an extension of the resolver table.  *)
BlockedName(path) ==
    LET filename == lastSegment(path)
    IN  HasDot(filename)
        /\ toLowerCase(TrailingExtension(filename)) \in BLOCKED_EXTENSIONS

C26_NoBlockedFileWrittenAscii ==
    \A r \in RunIds :
        (Has(run[r].log, "createBinary") /\ run[r].targetPath # PathIDotExe)
            => ~BlockedName(BinaryPath(run[r]))


----------------------------------------------------------------------------
(* C27: two runs of downloadFile (src/main.ts) that interleave at their     *)
(* awaits and compute the same final path, neither finding a file there     *)
(* when it was called, never both report success: at most one run           *)
(* succeeds, the file then holds exactly that run's bytes, and the other    *)
(* run, once over, has ended in failure with the failure notice and the     *)
(* file is as the first run wrote it.  (In part_000 the same holds except   *)
(* that the failure can be the rejection of C12 in place of the notice.)    *)
Compete(r, s) ==
    /\ r # s
    /\ Has(run[r].log, "createBinary") /\ Has(run[s].log, "createBinary")
    /\ BinaryPath(run[r]) = BinaryPath(run[s])
    /\ ~Exists(run[r].vaultAtCall, BinaryPath(run[r]))
    /\ ~Exists(run[s].vaultAtCall, BinaryPath(run[s]))

C27_AtMostOneSuccess ==
    \A r, s \in TwoRunIds :
        Compete(r, s) =>
            /\ ~(run[r].pc = "done" /\ run[s].pc = "done")
            /\ run[r].pc = "done" =>
                 /\ BinaryPath(run[r]) \in DOMAIN vault.files
                 /\ vault.files[BinaryPath(run[r])] = BinaryData(run[r])
                 /\ vault.files[BinaryPath(run[r])] # BinaryData(run[s])
                 /\ Settled(run[s]) =>
                      /\ run[s].pc \in {"failed", "rejected"}
                      /\ variant = "main" =>
                           /\ run[s].pc = "failed"
                           /\ Cardinality(FailureNotices(run[s])) = 1
                           /\ SuccessNotices(run[s]) = {}

\* both runs were called on a vault without the file, run 2 wrote first and
\* run 1's createBinary was refused
C27_Witness ==
    /\ variant = "main"
    /\ Compete(1, 2)
    /\ run[2].pc = "done"
    /\ run[1].pc = "failed"
    /\ run[1].error.kind = "AlreadyExists"
    /\ vault.files[BinaryPath(run[2])] = Body(1, MAX_FILE_SIZE)


----------------------------------------------------------------------------
(* C28, as stated: when every network request and every vault call          *)
(* eventually returns or throws, every run of downloadFile eventually       *)
(* reaches Done or Failed, and both are final: after the success or failure *)
(* notice the run issues no further request and makes no further vault      *)
(* call.                                                                    *)
C28_Final ==
    [][\A r \in RunIds :
          Settled(run[r]) => (run'[r] = run[r] /\ vault' = vault)]_vars

C28_ReachesDoneOrFailed ==
    \A r \in RunIds :
        (run[r].pc # "idle") ~> (run[r].pc \in {"done", "failed"})

C28_EventuallyDoneOrFailed == C28_ReachesDoneOrFailed /\ C28_Final

\* every called run settles: its promise resolves after one of the two
\* notices, or rejects
C28_Settles ==
    \A r \in RunIds : (run[r].pc # "idle") ~> Settled(run[r])

\* src/main.ts alone
C28_MainReachesDoneOrFailed ==
    \A r \in RunIds :
        (variant = "main" /\ run[r].pc # "idle") ~> (run[r].pc \in {"done", "failed"})


----------------------------------------------------------------------------
(* C29, as stated: when a response violates more than one gate, the failure *)
(* reported is that of the earliest gate in the order HTTP status, declared *)
(* size, content-type allowlist, HTML check, empty body, actual size: a 200 *)
(* that declares more than 20 MiB and a disallowed content type fails with  *)
(* the too-large error, and a text/html response with an empty body fails   *)
(* with the HTML error.                                                     *)
GateErrors ==
    { "HttpError", "HttpErrorRetry", "TooLarge", "ContentTypeNotAllowed",
      "Html", "Empty", "EmptyRetry" }

\* the place in the order of the gate a failure comes from
GateIndex(rec) ==
    CASE rec.error.kind \in {"HttpError", "HttpErrorRetry"} -> 1
      [] rec.error.kind = "TooLarge" /\ ~Has(rec.log, "readBody") -> 2
      [] rec.error.kind = "ContentTypeNotAllowed" -> 3
      [] rec.error.kind = "Html" -> 4
      [] rec.error.kind \in {"Empty", "EmptyRetry"} -> 5
      [] rec.error.kind = "TooLarge" /\ Has(rec.log, "readBody") -> 6

\* the body of the response received last, once the run holds it (requestUrl
\* delivers it with the response, fetch when arrayBuffer() resolves)
BodyKnown(rec) == variant = "main" \/ Has(rec.log, "readBody")
JudgedBody(rec) ==
    IF variant = "main" THEN rec.response.body ELSE rec.buffer

\* the gates the response received last violates, by their place in the order
ViolatedGates(rec) ==
    LET response == LastResponse(rec)
        retry == rec.freshResponse.status # 0
    IN  { g \in 1..6 :
            \/ g = 1 /\ ~Is2xx(response.status) /\ (retry \/ response.status # 304)
            \/ g = 2 /\ response.contentLength \in DeclaredOver
            \/ g = 3 /\ response.contentType \in OffAllowlist
            \/ g = 4 /\ response.contentType \in HtmlTypes
            \/ g = 5 /\ BodyKnown(rec) /\ JudgedBody(rec).len = 0
            \/ g = 6 /\ BodyKnown(rec) /\ JudgedBody(rec).len \in Over }

GateFailure(rec) ==
    rec.pc = "failed" /\ rec.error.kind \in GateErrors /\ LastResponse(rec).status # 0

C29_EarliestGateReported ==
    \A r \in RunIds :
        GateFailure(run[r]) =>
            \A g \in ViolatedGates(run[r]) : GateIndex(run[r]) <= g

\* the same for src/main.ts and for the first response of part_000
C29_EarliestGateFirstResponse ==
    \A r \in RunIds :
        (GateFailure(run[r]) /\ ~run[r].retried) =>
            \A g \in ViolatedGates(run[r]) : GateIndex(run[r]) <= g

\* the two examples of the claim, in src/main.ts
C29_ExampleTooLarge ==
    /\ variant = "main"
    /\ GateFailure(run[1])
    /\ run[1].response.status = 200
    /\ {2, 3} \subseteq ViolatedGates(run[1])
    /\ run[1].error.kind = "TooLarge"
C29_ExampleHtml ==
    /\ variant = "main"
    /\ GateFailure(run[1])
    /\ {4, 5} \subseteq ViolatedGates(run[1])
    /\ run[1].error.kind = "Html"


----------------------------------------------------------------------------
(* C30: in src/main.ts, once handleDownload has passed its checks and       *)
(* disabled the form, the modal is closed as soon as downloadFile returns,  *)
(* after a failed download as after a successful one: downloadFile never    *)
(* rejects, so the catch branch of handleDownload is never taken,           *)
(* hideLoadingState never runs and the form stays disabled. (The claim      *)
(* cites src/main.ts; in part_000 the rejection of C12 does reach the catch *)
(* branch of handleDownload.)                                               *)
Submitted == modal.pc \in {"downloading", "closed", "reenabled"}

C30_NoCatchBranch ==
    (variant = "main" /\ Submitted) =>
        /\ modal.pc # "reenabled"
        /\ modal.disabled
        /\ \A r \in RunIds : run[r].pc # "rejected"
        /\ modal.pc = "closed" => \E r \in RunIds : Ended(run[r])

\* downloadFile has returned and handleDownload has not yet resumed: its
\* next step is this.close(), and nothing else happens before it
C30_ClosesOnReturn ==
    (variant = "main" /\ modal.pc = "downloading"
        /\ \E r \in RunIds : Ended(run[r]))
    => (modal'.pc = "closed" /\ run' = run /\ vault' = vault)

C30_ClosedAfterReturn == []C30_NoCatchBranch /\ [][C30_ClosesOnReturn]_vars

C30_Witness ==
    /\ variant = "main"
    /\ modal.pc = "closed"
    /\ modal.disabled
    /\ \E r \in RunIds : run[r].pc = "failed" /\ Cardinality(FailureNotices(run[r])) = 1

C30_WitnessDone ==
    /\ variant = "main"
    /\ modal.pc = "closed"
    /\ \E r \in RunIds : run[r].pc = "done"

\* the same in both snapshots: part_000 takes the catch branch
C30_NoCatchBranchAnywhere == modal.pc # "reenabled"

============================================================================
